---- MODULE Spec2Model ----
(***************************************************************************)
(* A model of the comparative analytics engine of gsc-chat: range          *)
(* resolution, the delta merge, the intent dispatcher (POST /api/chat and  *)
(* runIntent), the insight synthesizer (buildV2Answer), the markdown       *)
(* renderer (renderV2AnswerMarkdown), the row normalizer                   *)
(* (normalizeGscRow), the paywall of POST /api/chat, the Stripe webhook    *)
(* and the Google OAuth login.                                             *)
(*                                                                         *)
(* The module holds several specifications over one set of variables.      *)
(* Each specification drives one part of the program and leaves the        *)
(* variables of the other parts at their parked value None.                *)
(***************************************************************************)
EXTENDS Integers, Sequences, FiniteSets, TLC

VARIABLES
    current,        \* computePreviousRange: the DateRange argument
    previousRange,  \* computePreviousRange: the returned DateRange, None before the call
    currRows,       \* mergeDeltas: the normalized rows of the current period
    prevRows,       \* mergeDeltas: the normalized rows of the previous period
    merged,         \* mergeDeltas: the returned DeltaRow list, None before the call
    answer,         \* renderV2AnswerMarkdown: the V2Answer argument
    markdown,       \* renderV2AnswerMarkdown: the returned document, None before the call
    v2Input,        \* buildV2Answer: the argument [intent, results]
    v2,             \* buildV2Answer: the returned V2Answer, None before the call
    request,        \* POST /api/chat: the message, the parsed tool calls and the site's data
    runs,           \* POST /api/chat: one runIntent promise per tool call
    response,       \* POST /api/chat: the response sent, None until then
    failures,       \* POST /api/chat: the failures in order, up to the first fetch that failed
    rawInput,       \* normalizeGscRow: the raw row argument
    normalized,     \* normalizeGscRow: what it returned, None before the call
    renormalized,   \* normalizeGscRow: what it returned for the returned row, None before the call
    usage,          \* the user's row of table usage: questions_used, pending_question
    account,        \* the user's role (table users) and row of table subscriptions
    chats,          \* POST /api/chat: the user's requests, each at one of its awaits
    answered,       \* the number of answer responses delivered to the user so far
    stripe_events,  \* table stripe_events: the event ids recorded
    stripe_customers, \* table stripe_customers: user id by Stripe customer id
    subscriptions,  \* table subscriptions: the subscription row by user id
    deliveries,     \* POST /api/stripe/webhook: the deliveries received, each at one of its awaits
    session,        \* the browser's sealed session cookie: userId, oauthState
    users,          \* table users: the Google subjects that have a row
    usage_rows,     \* table usage: the user ids that have a row
    gsc_tokens,     \* table gsc_tokens: the user ids that have tokens
    logins          \* the browser's visits to the OAuth routes, each at one of its stops

None == [none |-> TRUE]

rangeVars == <<current, previousRange>>
mergeVars == <<currRows, prevRows, merged>>
renderVars == <<answer, markdown>>
answerVars == <<v2Input, v2>>
requestVars == <<request, runs, response, failures>>
normalizeVars == <<rawInput, normalized, renormalized>>
chatVars == <<usage, account, chats, answered>>
webhookVars == <<stripe_events, stripe_customers, subscriptions, deliveries>>
oauthVars == <<session, users, usage_rows, gsc_tokens, logins>>
vars == <<rangeVars, mergeVars, renderVars, answerVars, requestVars, normalizeVars,
          chatVars, webhookVars, oauthVars>>

\* The variables of POST /api/chat while another part of the program is driven.
RequestParked == request = None /\ runs = None /\ response = None /\ failures = None

\* The variables of the row normalizer while another part is driven.
NormalizeParked == rawInput = None /\ normalized = None /\ renormalized = None

\* The variables of the paywall and of the Stripe webhook while another part
\* is driven.
ChatParked == usage = None /\ account = None /\ chats = None /\ answered = None
WebhookParked ==
    /\ stripe_events = None /\ stripe_customers = None
    /\ subscriptions = None /\ deliveries = None

\* The variables of the OAuth login while another part is driven.
OAuthParked ==
    /\ session = None /\ users = None /\ usage_rows = None
    /\ gsc_tokens = None /\ logins = None

(***************************************************************************)
(* Small helpers                                                           *)
(***************************************************************************)
Min(a, b) == IF a <= b THEN a ELSE b
Max(a, b) == IF a >= b THEN a ELSE b
Range(s) == {s[i] : i \in DOMAIN s}

(***************************************************************************)
(* Range Resolver (src/app/api/chat/route.ts 65-93)                        *)
(*                                                                         *)
(* A YYYY-MM-DD string is the record [y, m, d] of its three numbers; a JS  *)
(* Date at UTC midnight is the number of whole days since 1970-01-01       *)
(* (its getTime() divided by 86 400 000).                                  *)
(***************************************************************************)

\* Date.UTC(year, monthIndex, day) / 86_400_000 for a year >= 100, in the
\* proleptic Gregorian calendar (monthIndex is 0-based, as in JS).
DateUTCDays(year, monthIndex, day) ==
    LET m   == monthIndex + 1
        y   == IF m <= 2 THEN year - 1 ELSE year
        era == y \div 400
        yoe == y - era * 400
        mp  == IF m > 2 THEN m - 3 ELSE m + 9
        doy == (153 * mp + 2) \div 5 + day - 1
        doe == yoe * 365 + yoe \div 4 - yoe \div 100 + doy
    IN  era * 146097 + doe - 719468

\* getUTCFullYear / getUTCMonth (0-based) / getUTCDate of the Date `days`.
UTCFields(days) ==
    LET z   == days + 719468
        era == z \div 146097
        doe == z - era * 146097
        yoe == (doe - doe \div 1460 + doe \div 36524 - doe \div 146096) \div 365
        doy == doe - (365 * yoe + yoe \div 4 - yoe \div 100)
        mp  == (5 * doy + 2) \div 153
        d   == doy - (153 * mp + 2) \div 5 + 1
        m   == IF mp < 10 THEN mp + 3 ELSE mp - 9
        y   == yoe + era * 400 + (IF m <= 2 THEN 1 ELSE 0)
    IN  [fullYear |-> y, month |-> m - 1, date |-> d]

parseYmdToUtcDate(ymd) == DateUTCDays(ymd.y, ymd.m - 1, ymd.d)

formatYmdUtc(date) ==
    LET f == UTCFields(date)
    IN  [y |-> f.fullYear, m |-> f.month + 1, d |-> f.date]

\* setUTCDate(getUTCDate() + days) on a copy: the Date moves by `days` days.
addUtcDays(date, days) ==
    LET f == UTCFields(date)
    IN  DateUTCDays(f.fullYear, f.month, 1) + (f.date + days) - 1

\* The mutant computes the previous start from the current start, so the
\* previous range is one day too short.
computePreviousRange_Short(cur) ==
    LET start    == parseYmdToUtcDate(cur.startDate)
        end      == parseYmdToUtcDate(cur.endDate)
        days     == (end - start) + 1
        prevEnd  == addUtcDays(start, -1)
        prevStart == addUtcDays(start, -(days - 1))
    IN  [startDate |-> formatYmdUtc(prevStart), endDate |-> formatYmdUtc(prevEnd)]

computePreviousRange(cur) ==
    LET start    == parseYmdToUtcDate(cur.startDate)
        end      == parseYmdToUtcDate(cur.endDate)
        days     == (end - start) + 1
        prevEnd  == addUtcDays(start, -1)
        prevStart == addUtcDays(prevEnd, -(days - 1))
    IN  [startDate |-> formatYmdUtc(prevStart), endDate |-> formatYmdUtc(prevEnd)]

(***************************************************************************)
(* The calendar the claims are stated in, written independently of the     *)
(* day arithmetic above: month lengths, leap years and the day after.      *)
(***************************************************************************)
YearSpan == 1
MaxDays == 31

\* The years range starts are drawn from: a leap year and the years after it.
Years == 2024..(2024 + YearSpan)

IsLeap(y) == (y % 4 = 0 /\ y % 100 # 0) \/ y % 400 = 0

DaysInMonth(y, m) ==
    IF m = 2 THEN (IF IsLeap(y) THEN 29 ELSE 28)
    ELSE IF m \in {4, 6, 9, 11} THEN 30 ELSE 31

CalendarDates ==
    {ymd \in [y : Years, m : 1..12, d : 1..31] :
        ymd.d <= DaysInMonth(ymd.y, ymd.m)}

NextDay(ymd) ==
    IF ymd.d < DaysInMonth(ymd.y, ymd.m) THEN [ymd EXCEPT !.d = ymd.d + 1]
    ELSE IF ymd.m < 12 THEN [y |-> ymd.y, m |-> ymd.m + 1, d |-> 1]
    ELSE [y |-> ymd.y + 1, m |-> 1, d |-> 1]

FirstOfNextMonth(ymd) ==
    IF ymd.m < 12 THEN [y |-> ymd.y, m |-> ymd.m + 1, d |-> 1]
    ELSE [y |-> ymd.y + 1, m |-> 1, d |-> 1]

\* The date n days after ymd, a month at a time.
RECURSIVE PlusDays(_, _)
PlusDays(ymd, n) ==
    IF ymd.d + n <= DaysInMonth(ymd.y, ymd.m) THEN [ymd EXCEPT !.d = ymd.d + n]
    ELSE PlusDays(FirstOfNextMonth(ymd), n - (DaysInMonth(ymd.y, ymd.m) - ymd.d + 1))

Before(a, b) ==
    \/ a.y < b.y
    \/ a.y = b.y /\ a.m < b.m
    \/ a.y = b.y /\ a.m = b.m /\ a.d < b.d

\* The inclusive day-count of the range from..to, a month at a time; 0 when
\* `to` is before `from`.
RECURSIVE DayCount(_, _)
DayCount(from, to) ==
    IF Before(to, from) THEN 0
    ELSE IF from.y = to.y /\ from.m = to.m THEN to.d - from.d + 1
    ELSE (DaysInMonth(from.y, from.m) - from.d + 1) + DayCount(FirstOfNextMonth(from), to)

\* The lengths of the presets of rangePreset (src/lib/auth.ts 89) and every
\* length up to MaxDays.
RangeLengths == (1..MaxDays) \cup {7, 28, 90}
InitRange ==
    /\ \E s \in CalendarDates :
         \E n \in RangeLengths :
            current = [startDate |-> s, endDate |-> PlusDays(s, n - 1)]
    /\ previousRange = None
    /\ currRows = None /\ prevRows = None /\ merged = None
    /\ answer = None /\ markdown = None
    /\ v2Input = None /\ v2 = None
    /\ RequestParked
    /\ NormalizeParked
    /\ ChatParked
    /\ WebhookParked
    /\ OAuthParked

ComputePreviousRange ==
    /\ previousRange = None
    /\ previousRange' = computePreviousRange(current)
    /\ UNCHANGED <<current, mergeVars, renderVars, answerVars, requestVars, normalizeVars,
                 chatVars, webhookVars, oauthVars>>

NextRange == ComputePreviousRange

SpecRange == InitRange /\ [][NextRange]_vars

\* C1: for every DateRange r with startDate <= endDate, the range returned by
\* computePreviousRange(r) has the same inclusive day-count as r and ends on
\* the calendar day immediately before r.startDate.
C1_PreviousRange ==
    previousRange # None =>
        /\ NextDay(previousRange.endDate) = current.startDate
        /\ DayCount(previousRange.startDate, previousRange.endDate)
             = DayCount(current.startDate, current.endDate)
        /\ DayCount(current.startDate, current.endDate) >= 1

\* The example of the specification: 2024-03-01..2024-03-28 has been resolved
\* to 2024-02-02..2024-02-29.
C1_Witness ==
    /\ current = [startDate |-> [y |-> 2024, m |-> 3, d |-> 1],
                  endDate   |-> [y |-> 2024, m |-> 3, d |-> 28]]
    /\ previousRange = [startDate |-> [y |-> 2024, m |-> 2, d |-> 2],
                        endDate   |-> [y |-> 2024, m |-> 2, d |-> 29]]

(***************************************************************************)
(* Delta Merge Engine (src/app/api/chat/route.ts 199-239)                  *)
(*                                                                         *)
(* A normalized row is [keys, clicks, impressions, ctr, position]; ctr is  *)
(* held in units of 1/10000, so that 0.5 is 5000. A DeltaRow carries its   *)
(* join key in the field `key` (the property named by keyName).            *)
(***************************************************************************)

\* The distinct elements of s in the order of their first occurrence: the
\* iteration order of a JS Map's keys and of a JS Set.
RECURSIVE Distinct(_)
Distinct(s) ==
    IF s = <<>> THEN <<>>
    ELSE LET front == Distinct(SubSeq(s, 1, Len(s) - 1))
             last  == s[Len(s)]
         IN  IF last \in Range(front) THEN front ELSE Append(front, last)

\* r.keys[0] ?? ""
FirstKey(r) == IF Len(r.keys) >= 1 THEN r.keys[1] ELSE ""

\* new Map(rows.map((r) => [r.keys[0] ?? "", r])): its keys in insertion
\* order, and get(k), where a later row replaces an earlier one of its key.
MapKeys(rows) == Distinct([i \in DOMAIN rows |-> FirstKey(rows[i])])
MapHas(rows, k) == \E i \in DOMAIN rows : FirstKey(rows[i]) = k
MapGet(rows, k) ==
    LET hits == {i \in DOMAIN rows : FirstKey(rows[i]) = k}
    IN  rows[CHOOSE i \in hits : \A j \in hits : j <= i]

\* c?.field ?? 0
FieldOrZero(rows, k, field) == IF MapHas(rows, k) THEN MapGet(rows, k)[field] ELSE 0

DeltaRow(curr, prv, k, keyName) ==
    LET clicksCurrent       == FieldOrZero(curr, k, "clicks")
        clicksPrevious      == FieldOrZero(prv, k, "clicks")
        impressionsCurrent  == FieldOrZero(curr, k, "impressions")
        impressionsPrevious == FieldOrZero(prv, k, "impressions")
        ctrCurrent          == FieldOrZero(curr, k, "ctr")
        ctrPrevious         == FieldOrZero(prv, k, "ctr")
        positionCurrent     == FieldOrZero(curr, k, "position")
        positionPrevious    == FieldOrZero(prv, k, "position")
    IN  [keyName |-> keyName, key |-> k,
         clicksCurrent |-> clicksCurrent, clicksPrevious |-> clicksPrevious,
         deltaClicks |-> clicksCurrent - clicksPrevious,
         impressionsCurrent |-> impressionsCurrent, impressionsPrevious |-> impressionsPrevious,
         deltaImpressions |-> impressionsCurrent - impressionsPrevious,
         ctrCurrent |-> ctrCurrent, ctrPrevious |-> ctrPrevious,
         deltaCtr |-> ctrCurrent - ctrPrevious,
         positionCurrent |-> positionCurrent, positionPrevious |-> positionPrevious,
         deltaPosition |-> positionPrevious - positionCurrent]

\* The mutant joins on the current rows only (a left join): a key that occurs
\* only in the previous period is dropped.
mergeDeltas_LeftJoin(curr, prv, keyName) ==
    LET keys == SelectSeq(Distinct(MapKeys(curr)), LAMBDA k : k # "")
    IN  [i \in DOMAIN keys |-> DeltaRow(curr, prv, keys[i], keyName)]

mergeDeltas(curr, prv, keyName) ==
    LET keys == SelectSeq(Distinct(MapKeys(curr) \o MapKeys(prv)), LAMBDA k : k # "")
    IN  [i \in DOMAIN keys |-> DeltaRow(curr, prv, keys[i], keyName)]

MaxRows == 2

\* Join keys; the empty string is a key a row may carry.
SampleKeys == {"", "shoes", "boots"}

\* Two rows' worth of metrics, so that repeated keys can carry different values.
SampleMetrics ==
    { [clicks |-> 100, impressions |-> 1000, ctr |-> 1000, position |-> 4],
      [clicks |-> 80,  impressions |-> 2000, ctr |-> 400,  position |-> 9] }

SampleRows ==
    { [keys |-> <<k>>, clicks |-> m.clicks, impressions |-> m.impressions,
       ctr |-> m.ctr, position |-> m.position] : k \in SampleKeys, m \in SampleMetrics }

SeqsUpTo(S, n) == UNION {[1..k -> S] : k \in 0..n}

InitMerge ==
    /\ currRows \in SeqsUpTo(SampleRows, MaxRows)
    /\ prevRows \in SeqsUpTo(SampleRows, MaxRows)
    /\ merged = None
    /\ current = None /\ previousRange = None
    /\ answer = None /\ markdown = None
    /\ v2Input = None /\ v2 = None
    /\ RequestParked
    /\ NormalizeParked
    /\ ChatParked
    /\ WebhookParked
    /\ OAuthParked

MergeDeltas ==
    /\ merged = None
    /\ \E keyName \in {"query", "page"} :
          merged' = [rows |-> mergeDeltas(currRows, prevRows, keyName)]
    /\ UNCHANGED <<currRows, prevRows, rangeVars, renderVars, answerVars, requestVars, normalizeVars,
                 chatVars, webhookVars, oauthVars>>

NextMerge == MergeDeltas

SpecMerge == InitMerge /\ [][NextMerge]_vars

KeysOf(rows) == {FirstKey(rows[i]) : i \in DOMAIN rows}

\* C2: mergeDeltas is a full outer join on keys[0]: exactly one DeltaRow per
\* distinct non-empty key of either list and no other row; a side that lacks
\* the key contributes zeros, a side that has it contributes the fields of one
\* of its rows of that key; and the four deltas are the differences of the
\* row's own fields, deltaPosition being previous minus current.
C2_FullOuterJoin ==
    merged # None =>
        LET out == merged.rows
            K   == (KeysOf(currRows) \cup KeysOf(prevRows)) \ {""}
        IN  /\ {out[i].key : i \in DOMAIN out} = K
            /\ Len(out) = Cardinality(K)
            /\ \A i \in DOMAIN out :
                 LET d == out[i] IN
                 /\ IF d.key \in KeysOf(currRows)
                    THEN \E j \in DOMAIN currRows :
                            /\ FirstKey(currRows[j]) = d.key
                            /\ d.clicksCurrent = currRows[j].clicks
                            /\ d.impressionsCurrent = currRows[j].impressions
                            /\ d.ctrCurrent = currRows[j].ctr
                            /\ d.positionCurrent = currRows[j].position
                    ELSE /\ d.clicksCurrent = 0 /\ d.impressionsCurrent = 0
                         /\ d.ctrCurrent = 0 /\ d.positionCurrent = 0
                 /\ IF d.key \in KeysOf(prevRows)
                    THEN \E j \in DOMAIN prevRows :
                            /\ FirstKey(prevRows[j]) = d.key
                            /\ d.clicksPrevious = prevRows[j].clicks
                            /\ d.impressionsPrevious = prevRows[j].impressions
                            /\ d.ctrPrevious = prevRows[j].ctr
                            /\ d.positionPrevious = prevRows[j].position
                    ELSE /\ d.clicksPrevious = 0 /\ d.impressionsPrevious = 0
                         /\ d.ctrPrevious = 0 /\ d.positionPrevious = 0
                 /\ d.deltaClicks = d.clicksCurrent - d.clicksPrevious
                 /\ d.deltaImpressions = d.impressionsCurrent - d.impressionsPrevious
                 /\ d.deltaCtr = d.ctrCurrent - d.ctrPrevious
                 /\ d.deltaPosition = d.positionPrevious - d.positionCurrent

\* A merge of lists with a repeated key, a key of the previous period only and
\* the example of the specification: "shoes" at 100 clicks against 80 gives
\* deltaClicks = 20.
C2_Witness ==
    /\ merged # None
    /\ Len(currRows) = 2 /\ FirstKey(currRows[1]) = "shoes" /\ FirstKey(currRows[2]) = "shoes"
    /\ Len(prevRows) = 2 /\ FirstKey(prevRows[1]) = "boots" /\ FirstKey(prevRows[2]) = "shoes"
    /\ Len(merged.rows) = 2
    /\ \E i \in DOMAIN merged.rows :
          /\ merged.rows[i].key = "shoes"
          /\ merged.rows[i].deltaClicks = 20
    /\ \E i \in DOMAIN merged.rows :
          /\ merged.rows[i].key = "boots"
          /\ merged.rows[i].clicksCurrent = 0
          /\ merged.rows[i].deltaClicks < 0

(***************************************************************************)
(* Structural Renderer (src/lib/stripeApi.ts 296-307, 734-764)             *)
(*                                                                         *)
(* A string is the sequence of its characters. The texts of an answer are  *)
(* single-line: they hold ordinary characters, spaces and full stops, no   *)
(* line break. A document is the sequence of its lines; the literal parts  *)
(* the renderer writes ("## Summary", the bullet marker, a priority label) *)
(* are each one element of a line.                                         *)
(***************************************************************************)
IsSpace(c) == c = " "

\* String.prototype.trim
RECURSIVE TrimStart(_)
TrimStart(t) ==
    IF t # <<>> /\ IsSpace(t[1]) THEN TrimStart(SubSeq(t, 2, Len(t))) ELSE t

RECURSIVE TrimEnd(_)
TrimEnd(t) ==
    IF t # <<>> /\ IsSpace(t[Len(t)]) THEN TrimEnd(SubSeq(t, 1, Len(t) - 1)) ELSE t

Trim(t) == TrimEnd(TrimStart(t))

\* The mutant pads but never truncates.
ensureBetween_NoSlice(items, min, max, filler) ==
    items \o [i \in 1..(min - Len(items)) |-> filler]

ensureBetween(items, min, max, filler) ==
    LET out == items \o [i \in 1..(min - Len(items)) |-> filler]
    IN  SubSeq(out, 1, Min(Len(out), max))

\* trimmed.search(/[.!?]\s/): the first sentence end that is followed by
\* white space.
firstSentence(text) ==
    LET trimmed == Trim(text)
        ends == {i \in 1..(Len(trimmed) - 1) :
                    trimmed[i] \in {".", "!", "?"} /\ IsSpace(trimmed[i + 1])}
    IN  IF ends = {} THEN trimmed
        ELSE LET idx == CHOOSE i \in ends : \A j \in ends : i <= j
             IN  Trim(SubSeq(trimmed, 1, idx))

\* answer.keyFindings.map((s) => s.trim()).filter(Boolean)
TrimmedNonBlank(list) ==
    SelectSeq([i \in DOMAIN list |-> Trim(list[i])], LAMBDA t : t # <<>>)

\* The em dash (U+2014) and the bullet marker (U+2022), written in ASCII.
EmDash == "(em dash)"
BulletMark == "(bullet)"

Dash == <<EmDash>>

FillerAction ==
    [step |-> <<"Review and iterate based on the biggest movers.">>, priority |-> "Low impact"]

\* The mutant numbers the actions from 0.
ActionLine_FromZero(a, i) ==
    <<ToString(i - 1), ".", " ">> \o Trim(a.step) \o <<" ", "[", a.priority, "]">>

\* `${i + 1}. ${a.step.trim()} [${a.priority}]`; i is the 1-based place here.
ActionLine(a, i) ==
    <<ToString(i), ".", " ">> \o Trim(a.step) \o <<" ", "[", a.priority, "]">>

\* The mutant drops the renderer's own padding and truncation of the lists.
RenderLists_Unbounded(a) ==
    [keyFindings  |-> TrimmedNonBlank(a.keyFindings),
     likelyCauses |-> TrimmedNonBlank(a.likelyCauses),
     recommended  |-> a.recommendedActions]

\* The three lists as rendered (stripeApi.ts 737-742).
RenderLists(a) ==
    [keyFindings  |-> ensureBetween(TrimmedNonBlank(a.keyFindings), 4, 8, Dash),
     likelyCauses |-> ensureBetween(TrimmedNonBlank(a.likelyCauses), 3, 6, Dash),
     recommended  |-> ensureBetween(a.recommendedActions, 3, 7, FillerAction)]

renderV2AnswerMarkdown(a) ==
    LET l == RenderLists(a)
        lines ==
            << <<"## Summary">>, Trim(a.summary), <<>>, <<"## Key findings">> >>
            \o [i \in DOMAIN l.keyFindings |-> <<BulletMark, " ">> \o l.keyFindings[i]]
            \o << <<>>, <<"## Likely causes">> >>
            \o [i \in DOMAIN l.likelyCauses |-> <<BulletMark, " ">> \o l.likelyCauses[i]]
            \o << <<>>, <<"## Recommended actions">> >>
            \o [i \in DOMAIN l.recommended |-> ActionLine(l.recommended[i], i)]
            \o << <<>>,
                  <<"What stands out:", " ">> \o firstSentence(a.whatStandsOut),
                  <<>>,
                  <<"## Confidence">>,
                  <<a.confidence.level, " ", EmDash, " ">> \o firstSentence(a.confidence.reason) >>
        \* lines.join("\n").trim() + "\n": the document begins with "## Summary"
        \* and ends with the confidence line, which begins with the level, so
        \* the trim removes the trailing spaces of the last line only.
        n == Len(lines)
    IN  [lines EXCEPT ![n] = TrimEnd(lines[n])]

(***************************************************************************)
(* The answers the renderer is given                                       *)
(***************************************************************************)
MaxExtra == 1

Priorities == {"High impact", "Medium impact", "Low impact"}
Levels == {"High", "Medium", "Low"}
PrioritySeq == <<"High impact", "Medium impact", "Low impact">>

\* The i-th text of a list: an ordinary word with white space around it.
ItemText(tag, i) == <<" ", tag, ToString(i), " ">>

BlankPatterns == {"none", "first", "last", "all"}

IsBlankAt(pattern, i, n) ==
    \/ pattern = "all"
    \/ pattern = "first" /\ i = 1
    \/ pattern = "last" /\ i = n

\* A blank entry is the empty string at the first place and white space
\* elsewhere.
TextList(tag, n, pattern) ==
    [i \in 1..n |-> IF IsBlankAt(pattern, i, n)
                    THEN (IF i = 1 THEN <<>> ELSE <<" ">>)
                    ELSE ItemText(tag, i)]

ActionList(n, shift) ==
    [i \in 1..n |-> [step |-> ItemText("a", i), priority |-> PrioritySeq[((i + shift) % 3) + 1]]]

\* Summary, headline and confidence: one sentence, two sentences, or blank.
Prose ==
    { [summary |-> <<"s", ".">>, whatStandsOut |-> <<"w", ".">>,
       confidence |-> [level |-> "High", reason |-> <<"r", ".">>]],
      [summary |-> <<" ", "s", ".", " ", "t", ".">>,
       whatStandsOut |-> <<"w", ".", " ", "x", ".">>,
       confidence |-> [level |-> "Medium", reason |-> <<" ", "r", "!", " ", "y", ".", " ">>]],
      [summary |-> <<>>, whatStandsOut |-> <<" ">>,
       confidence |-> [level |-> "Low", reason |-> <<>>]] }

Answers ==
    { [summary |-> p.summary,
       keyFindings |-> TextList("f", nf, pattern),
       likelyCauses |-> TextList("c", nc, pattern),
       recommendedActions |-> ActionList(na, shift),
       whatStandsOut |-> p.whatStandsOut,
       confidence |-> p.confidence] :
        p \in Prose, nf \in 0..(8 + MaxExtra), nc \in 0..(6 + MaxExtra),
        na \in 0..(7 + MaxExtra), pattern \in BlankPatterns, shift \in 0..2 }

InitRender ==
    /\ answer \in Answers
    /\ markdown = None
    /\ current = None /\ previousRange = None
    /\ currRows = None /\ prevRows = None /\ merged = None
    /\ v2Input = None /\ v2 = None
    /\ RequestParked
    /\ NormalizeParked
    /\ ChatParked
    /\ WebhookParked
    /\ OAuthParked

RenderV2AnswerMarkdown ==
    /\ markdown = None
    /\ markdown' = [lines |-> renderV2AnswerMarkdown(answer)]
    /\ UNCHANGED <<answer, rangeVars, mergeVars, answerVars, requestVars, normalizeVars,
                 chatVars, webhookVars, oauthVars>>

NextRender == RenderV2AnswerMarkdown

SpecRender == InitRender /\ [][NextRender]_vars

(***************************************************************************)
(* Reading a rendered document                                             *)
(***************************************************************************)
Headings ==
    << <<"## Summary">>, <<"## Key findings">>, <<"## Likely causes">>,
       <<"## Recommended actions">>, <<"## Confidence">> >>

LinesEqual(doc, line) == {i \in DOMAIN doc : doc[i] = line}
IndexOf(doc, line) == CHOOSE i \in LinesEqual(doc, line) : TRUE

\* The lines after heading h up to the next heading (or the end).
SectionLines(doc, h) ==
    LET from == IndexOf(doc, Headings[h])
        next == IF h < Len(Headings) THEN IndexOf(doc, Headings[h + 1]) ELSE Len(doc) + 1
    IN  SubSeq(doc, from + 1, next - 1)

IsBullet(line) == Len(line) >= 2 /\ line[1] = BulletMark /\ line[2] = " "
Digits == {ToString(i) : i \in 0..(8 + MaxExtra)}
IsNumbered(line) == Len(line) >= 3 /\ line[1] \in Digits /\ line[2] = "." /\ line[3] = " "
IsStandsOut(line) == Len(line) >= 1 /\ line[1] = "What stands out:"

Bullets(doc, h) == SelectSeq(SectionLines(doc, h), IsBullet)
Numbered(doc, h) == SelectSeq(SectionLines(doc, h), IsNumbered)

WellFormed(doc) ==
    /\ \A h \in DOMAIN Headings : Cardinality(LinesEqual(doc, Headings[h])) = 1
    /\ \A h \in 1..(Len(Headings) - 1) : IndexOf(doc, Headings[h]) < IndexOf(doc, Headings[h + 1])

CountsInBounds(doc) ==
    /\ Len(Bullets(doc, 2)) \in 4..8
    /\ Len(Bullets(doc, 3)) \in 3..6
    /\ Len(Numbered(doc, 4)) \in 3..7

SatisfiesCountBounds(a) ==
    /\ Len(a.keyFindings) \in 4..8
    /\ Len(a.likelyCauses) \in 3..6
    /\ Len(a.recommendedActions) \in 3..7

NoBlankEntry(a) ==
    /\ \A i \in DOMAIN a.keyFindings : Trim(a.keyFindings[i]) # <<>>
    /\ \A i \in DOMAIN a.likelyCauses : Trim(a.likelyCauses[i]) # <<>>

\* The one "What stands out:" line comes after every action line and before
\* "## Confidence".
StandsOutPlaced(doc) ==
    LET so == {i \in DOMAIN doc : IsStandsOut(doc[i])}
    IN  /\ Cardinality(so) = 1
        /\ \A i \in so :
              /\ i < IndexOf(doc, Headings[5])
              /\ \A j \in DOMAIN doc : IsNumbered(doc[j]) => j < i

\* The text of a bullet line and the step text of an action line.
BulletText(line) == SubSeq(line, 3, Len(line))
StepText(line) == SubSeq(line, 4, Len(line) - 4)
PriorityOf(line) == line[Len(line) - 1]

\* The first max entries of nb, then fillers up to min.
PaddedTruncated(nb, min, max, filler) ==
    [i \in 1..Max(min, Min(max, Len(nb))) |-> IF i <= Len(nb) THEN nb[i] ELSE filler]

Undef == "(undefined)"

\* Array.isArray(r.items)
IsArray(items) == items.array

\* pctChange(current, previous) as the fraction n/d, d = Math.max(previous, 1)
pctChange(cur, prev) == [n |-> cur - prev, d |-> Max(prev, 1)]

\* fraction > num/den and fraction < num/den, for positive denominators
FracGT(f, num, den) == f.n * den > num * f.d
FracLT(f, num, den) == f.n * den < num * f.d

computeTotalsDelta(cur, prev) ==
    [clicksPct           |-> pctChange(cur.clicks, prev.clicks),
     impressionsPct      |-> pctChange(cur.impressions, prev.impressions),
     ctrAbs              |-> cur.ctr - prev.ctr,
     positionImprovement |-> prev.position - cur.position]

\* results.find((r) => r.kind !== "empty") ?? results[0], as an index; 0 when
\* there is no result.
PrimaryIndex(results) ==
    LET nonEmpty == {i \in DOMAIN results : results[i].kind # "empty"}
    IN  IF nonEmpty # {} THEN CHOOSE i \in nonEmpty : \A j \in nonEmpty : i <= j
        ELSE IF Len(results) > 0 THEN 1 ELSE 0

\* What one result offers pickExampleFromResults, None when nothing.
ExampleOf(r) ==
    IF r.context.pageUrl # Undef THEN [query |-> Undef, pageUrl |-> r.context.pageUrl]
    ELSE IF r.kind \in {"query_deltas", "query_list", "page_drilldown"}
            /\ Len(r.items.list) > 0 /\ r.items.list[1].query # Undef
         THEN [query |-> r.items.list[1].query, pageUrl |-> Undef]
    ELSE IF r.kind \in {"page_deltas", "page_list"}
            /\ Len(r.items.list) > 0 /\ r.items.list[1].page # Undef
         THEN [query |-> Undef, pageUrl |-> r.items.list[1].page]
    ELSE IF r.kind = "query_page_cannibalization"
            /\ Len(r.items.list) > 0 /\ r.items.list[1].query # Undef
         \* items[0].topPages is not a property of a cannibalization item
         THEN [query |-> r.items.list[1].query, pageUrl |-> Undef]
    ELSE IF r.kind = "brand_vs_nonbrand"
            /\ (Len(r.items.nonBrand.topQueries) > 0 \/ Len(r.items.brand.topQueries) > 0)
         THEN [query |-> IF Len(r.items.nonBrand.topQueries) > 0
                         THEN r.items.nonBrand.topQueries[1].query
                         ELSE r.items.brand.topQueries[1].query,
               pageUrl |-> Undef]
    ELSE None

pickExampleFromResults(results) ==
    LET hits == {i \in DOMAIN results : ExampleOf(results[i]) # None}
    IN  IF hits = {} THEN [query |-> Undef, pageUrl |-> Undef]
        ELSE ExampleOf(results[CHOOSE i \in hits : \A j \in hits : i <= j])

\* insights.push(text) when cond
PushIf(list, cond, text) == IF cond THEN Append(list, <<text>>) ELSE list

deriveMicroInsights(d, results) ==
    LET i1 == PushIf(<<>>, d.positionImprovement > 3 /\ FracLT(d.clicksPct, -5, 100),
                     "Average position improved, but clicks fell")
        i2 == PushIf(i1, FracGT(d.impressionsPct, 5, 100) /\ d.ctrAbs < -20,
                     "Impressions rose while CTR fell")
        i3 == PushIf(i2, Len(i2) < 2 /\ FracLT(d.impressionsPct, -5, 100)
                            /\ d.positionImprovement >= 0,
                     "Visibility dropped even though average position did not worsen")
        i4 == PushIf(i3, Len(i3) < 2 /\ FracGT(d.clicksPct, 5, 100) /\ d.ctrAbs > 20,
                     "Clicks grew alongside CTR")
        hasCannibal == \E i \in DOMAIN results :
                          /\ results[i].kind = "query_page_cannibalization"
                          /\ IsArray(results[i].items) /\ Len(results[i].items.list) > 0
        i5 == PushIf(i4, hasCannibal /\ Len(i4) < 3, "Potential cannibalization is present")
        hasBrand == \E i \in DOMAIN results : results[i].kind = "brand_vs_nonbrand"
        i6 == PushIf(i5, hasBrand /\ Len(i5) < 3,
                     "Brand and non-brand performance can move in opposite directions")
        i7 == IF Len(i6) < 2
              THEN i6 \o << <<"Most performance shifts concentrate in a small set">>,
                            <<"Small CTR changes can have outsized click impact">> >>
              ELSE i6
    IN  SubSeq(i7, 1, Min(Len(i7), 3))

chooseConfidence(hasData, currentImpressions, previousImpressions, itemsCount) ==
    IF ~hasData \/ itemsCount = 0 THEN [level |-> "Low", reason |-> <<"No data was returned.">>]
    ELSE LET minImpr == Min(currentImpressions, previousImpressions)
         IN  IF minImpr >= 5000 THEN [level |-> "High", reason |-> <<"Substantial volume.">>]
             ELSE IF minImpr >= 500 THEN [level |-> "Medium", reason |-> <<"Enough volume.">>]
             ELSE [level |-> "Low", reason |-> <<"Low impression volume.">>]

FollowUpAction == [step |-> <<"Re-check the top movers after changes.">>, priority |-> "Low impact"]

\* base.unshift(action) when cond
UnshiftIf(list, cond, step, priority) ==
    IF cond THEN <<[step |-> <<step>>, priority |-> priority]>> \o list ELSE list

\* The mutant returns the unpadded base list: no filler, no cap.
ActionsInRange_Unbounded(base) == base

\* ensureBetween(base, 3, 7, follow-up action) (stripeApi.ts 516-519)
ActionsInRange(base) == ensureBetween(base, 3, 7, FollowUpAction)

\* The mutant counts a change of exactly 10% as a fall or a rise.
buildRecommendedActions_FromTenPercent(intent, example, totalsDelta, hasData) ==
    LET clicksDown == totalsDelta # None /\ ~FracGT(totalsDelta.clicksPct, -1, 10)
        clicksUp   == totalsDelta # None /\ ~FracLT(totalsDelta.clicksPct, 1, 10)
        high == "High impact"
        med  == "Medium impact"
        low  == "Low impact"
        base == << [step |-> <<"Validate the main landing page and snippet alignment.">>,
                    priority |-> IF clicksDown THEN high ELSE med],
                   [step |-> <<"Inspect SERP changes and competitors.">>,
                    priority |-> IF clicksDown THEN high ELSE med],
                   [step |-> <<"Improve CTR on high-impression items.">>,
                    priority |-> med],
                   [step |-> <<"Check technical and coverage basics.">>,
                    priority |-> IF clicksDown THEN med ELSE low] >>
        b1 == UnshiftIf(base, intent = "CANNIBALIZATION_QUERIES",
                        "Consolidate overlapping pages for the top cannibalized query.", high)
        b2 == UnshiftIf(b1, intent = "DRILLDOWN_PAGE_TO_QUERIES" /\ example.pageUrl # Undef,
                        "Prioritize on-page sections and internal links on the page.", high)
        b3 == UnshiftIf(b2, clicksUp, "Double down on what is working.", high)
    IN  IF ~hasData
        THEN << [step |-> <<"Confirm you selected the correct Search Console property.">>,
                 priority |-> med],
                [step |-> <<"Ask a more specific question.">>, priority |-> med],
                [step |-> <<"Verify the property is verified and permissions suffice.">>,
                 priority |-> low] >>
        ELSE ActionsInRange(b3)

\* totalsDelta is None when there is no primary result (undefined).
buildRecommendedActions(intent, example, totalsDelta, hasData) ==
    LET clicksDown == totalsDelta # None /\ FracLT(totalsDelta.clicksPct, -1, 10)
        clicksUp   == totalsDelta # None /\ FracGT(totalsDelta.clicksPct, 1, 10)
        high == "High impact"
        med  == "Medium impact"
        low  == "Low impact"
        base == << [step |-> <<"Validate the main landing page and snippet alignment.">>,
                    priority |-> IF clicksDown THEN high ELSE med],
                   [step |-> <<"Inspect SERP changes and competitors.">>,
                    priority |-> IF clicksDown THEN high ELSE med],
                   [step |-> <<"Improve CTR on high-impression items.">>,
                    priority |-> med],
                   [step |-> <<"Check technical and coverage basics.">>,
                    priority |-> IF clicksDown THEN med ELSE low] >>
        b1 == UnshiftIf(base, intent = "CANNIBALIZATION_QUERIES",
                        "Consolidate overlapping pages for the top cannibalized query.", high)
        b2 == UnshiftIf(b1, intent = "DRILLDOWN_PAGE_TO_QUERIES" /\ example.pageUrl # Undef,
                        "Prioritize on-page sections and internal links on the page.", high)
        b3 == UnshiftIf(b2, clicksUp, "Double down on what is working.", high)
    IN  IF ~hasData
        THEN << [step |-> <<"Confirm you selected the correct Search Console property.">>,
                 priority |-> med],
                [step |-> <<"Ask a more specific question.">>, priority |-> med],
                [step |-> <<"Verify the property is verified and permissions suffice.">>,
                 priority |-> low] >>
        ELSE ActionsInRange(b3)

\* The findings a secondary result adds (stripeApi.ts 632-658): one or none.
AdditionalFinding(r) ==
    IF r.kind = "brand_vs_nonbrand" THEN << <<"Brand vs non-brand was also analyzed.">> >>
    ELSE IF ~(IsArray(r.items) /\ Len(r.items.list) > 0) THEN <<>>
    ELSE IF r.kind = "query_page_cannibalization"
         THEN (IF r.items.list[1].query # Undef
               THEN << <<"Potential cannibalization signal for a query.">> >> ELSE <<>>)
    ELSE IF r.items.list[1].query # Undef THEN << <<"Also notable: a query is a top mover.">> >>
    ELSE IF r.items.list[1].page # Undef THEN << <<"Also notable: a page is a top mover.">> >>
    ELSE <<>>

\* The loop over the results: the primary is skipped, and the loop ends once
\* two findings are collected.
RECURSIVE AdditionalFindings(_, _, _, _)
AdditionalFindings(results, primary, i, acc) ==
    IF i > Len(results) THEN acc
    ELSE IF i = primary THEN AdditionalFindings(results, primary, i + 1, acc)
    ELSE IF Len(acc) >= 2 THEN acc
    ELSE AdditionalFindings(results, primary, i + 1, acc \o AdditionalFinding(results[i]))

\* The mutant keeps the findings as collected: no filler, no cap.
FindingsInRange_Unbounded(findings) == findings

\* ensureBetween(findings, 4, 8, filler) (stripeApi.ts 661-666)
FindingsInRange(findings) ==
    ensureBetween(findings, 4, 8, <<"No additional findings were available.">>)

buildV2Answer(input) ==
    LET results == input.results
        pi      == PrimaryIndex(results)
        hasPrimary == pi # 0
        primary == IF hasPrimary THEN results[pi] ELSE None
        hasData == hasPrimary /\ primary.kind # "empty"
        summary == IF hasPrimary THEN <<"Analyzed the ranges.", " ", "The notes below follow.">>
                   ELSE <<"Provided guidance (no GSC data was pulled).", " ",
                          "The notes below follow.">>
        example == pickExampleFromResults(results)
        totalsDelta == IF hasPrimary
                       THEN computeTotalsDelta(primary.totals.current, primary.totals.previous)
                       ELSE None
        microInsights == IF hasData THEN deriveMicroInsights(totalsDelta, results) ELSE <<>>
        keyFindingsBase ==
            IF ~hasData /\ hasPrimary
            THEN << <<"No rows were returned.">>, <<"This usually means very low search volume.">>,
                    <<"Double-check the property type.">>, <<"Confirm the exact URL.">> >>
            ELSE IF hasPrimary /\ primary.kind = "brand_vs_nonbrand"
            THEN << <<"Brand clicks vs previous.">>, <<"Non-brand clicks vs previous.">>,
                    <<"Brand CTR changed.">>, <<"Non-brand CTR changed.">> >>
            ELSE IF hasPrimary
            THEN << <<"Clicks vs previous.">>, <<"Impressions vs previous.">>,
                    <<"CTR changed.">>,
                    <<IF totalsDelta.positionImprovement >= 0
                      THEN "Average position improved." ELSE "Average position worsened.">> >>
            ELSE << <<"No Search Console comparison data was available.">> >>
        topMover ==
            IF hasPrimary /\ IsArray(primary.items) /\ Len(primary.items.list) > 0
            THEN (IF primary.items.list[1].query # Undef THEN << <<"Top focus query.">> >>
                  ELSE IF primary.items.list[1].page # Undef THEN << <<"Top focus page.">> >>
                  ELSE <<>>)
            ELSE IF example.query # Undef THEN << <<"A concrete starting point is the query.">> >>
            ELSE IF example.pageUrl # Undef THEN << <<"A concrete starting point is the page.">> >>
            ELSE <<>>
        additionalFindings == AdditionalFindings(results, pi, 1, <<>>)
        keyFindings ==
            FindingsInRange(SelectSeq(keyFindingsBase \o topMover \o additionalFindings \o microInsights,
                                      LAMBDA t : Trim(t) # <<>>))
        c1 == IF ~hasData /\ hasPrimary
              THEN << <<"Search demand is too low in these windows.">>,
                      <<"The property might not match the live canonical URLs.">>,
                      <<"Filters may be too strict.">> >>
              ELSE <<>>
        c2 == PushIf(c1, hasData /\ FracGT(totalsDelta.impressionsPct, 5, 100)
                            /\ totalsDelta.ctrAbs < -20,
                     "Snippet/intent mismatch.")
        c3 == PushIf(c2, hasData /\ totalsDelta.positionImprovement > 3
                            /\ FracLT(totalsDelta.clicksPct, -5, 100),
                     "SERP layout changes or lower brand demand.")
        c4 == PushIf(c3, hasData /\ FracLT(totalsDelta.impressionsPct, -5, 100),
                     "Demand/seasonality shifts or reduced query coverage.")
        c5 == PushIf(c4, input.intent = "CANNIBALIZATION_QUERIES", "Overlapping pages compete.")
        c6 == PushIf(c5, input.intent = "BRAND_VS_NONBRAND", "Brand and non-brand behave differently.")
        c7 == Append(c6, <<"Measurement caveat: low-volume items can swing sharply.">>)
        likelyCauses == ensureBetween(c7, 3, 6, <<"Additional diagnostics may be needed.">>)
        recommendedActions ==
            buildRecommendedActions(
                IF input.intent # Undef THEN input.intent
                ELSE IF hasPrimary THEN primary.intent ELSE Undef,
                example, totalsDelta, hasData)
        itemsCount == LET counts == [i \in DOMAIN results |->
                                        IF IsArray(results[i].items)
                                        THEN Len(results[i].items.list) ELSE 0]
                          sum[i \in 0..Len(results)] ==
                              IF i = 0 THEN 0 ELSE sum[i - 1] + counts[i]
                      IN  sum[Len(results)]
        confidence ==
            IF hasPrimary
            THEN chooseConfidence(hasData, primary.totals.current.impressions,
                                  primary.totals.previous.impressions, itemsCount)
            ELSE [level |-> "Medium", reason |-> <<"No comparison totals were available.">>]
        whatStandsOut ==
            IF Len(microInsights) > 0 THEN firstSentence(microInsights[1])
            ELSE <<"The biggest changes appear concentrated in the top movers.">>
    IN  [summary |-> summary, keyFindings |-> keyFindings, likelyCauses |-> likelyCauses,
         recommendedActions |-> recommendedActions, whatStandsOut |-> whatStandsOut,
         confidence |-> confidence]

(***************************************************************************)
(* The inputs buildV2Answer is given                                       *)
(***************************************************************************)
MaxResults == 2

Intents ==
    {"TOP_WINNERS_QUERIES", "TOP_LOSERS_QUERIES", "TOP_WINNERS_PAGES", "TOP_LOSERS_PAGES",
     "HIGH_IMPRESS_LOW_CTR_PAGES", "POSITION_UP_CLICKS_DOWN_QUERIES",
     "CTR_OPPORTUNITIES_QUERIES", "BRAND_VS_NONBRAND", "CANNIBALIZATION_QUERIES",
     "DRILLDOWN_PAGE_TO_QUERIES"}

\* Totals of the two periods: clicks down by 20%, flat, up by 20%, with ctr
\* and position moving along, and clicks down and up by exactly 10%; impressions on both sides of the confidence
\* thresholds, the example of the specification (200 against 10000) among them.
SampleClicks ==
    { [cur |-> [clicks |-> 80,  ctr |-> 400, position |-> 40],
       prev |-> [clicks |-> 100, ctr |-> 500, position |-> 50]],
      [cur |-> [clicks |-> 100, ctr |-> 500, position |-> 50],
       prev |-> [clicks |-> 100, ctr |-> 500, position |-> 50]],
      [cur |-> [clicks |-> 120, ctr |-> 600, position |-> 60],
       prev |-> [clicks |-> 100, ctr |-> 500, position |-> 50]],
      [cur |-> [clicks |-> 90,  ctr |-> 500, position |-> 50],
       prev |-> [clicks |-> 100, ctr |-> 500, position |-> 50]],
      [cur |-> [clicks |-> 110, ctr |-> 500, position |-> 50],
       prev |-> [clicks |-> 100, ctr |-> 500, position |-> 50]] }

SampleImpressions ==
    { <<200, 10000>>, <<9000, 5000>>, <<4999, 9000>>, <<500, 600>>, <<600, 499>>, <<0, 0>> }

SampleTotals ==
    { [current  |-> [clicks |-> c.cur.clicks, impressions |-> i[1],
                     ctr |-> c.cur.ctr, position |-> c.cur.position],
       previous |-> [clicks |-> c.prev.clicks, impressions |-> i[2],
                     ctr |-> c.prev.ctr, position |-> c.prev.position]] :
        c \in SampleClicks, i \in SampleImpressions }

QueryItem(q, dc) == [query |-> q, page |-> Undef, deltaClicks |-> dc, pageCount |-> 0]
PageItem(pg, dc) == [query |-> Undef, page |-> pg, deltaClicks |-> dc, pageCount |-> 0]
CannibalItem(q, n) == [query |-> q, page |-> Undef, deltaClicks |-> 0, pageCount |-> n]

ArrayItems(list) == [array |-> TRUE, list |-> list]
BrandItems(t, brandTop, nonBrandTop) ==
    [array |-> FALSE,
     brand |-> [totals |-> t, topQueries |-> brandTop],
     nonBrand |-> [totals |-> t, topQueries |-> nonBrandTop]]

NoContext == [pageUrl |-> Undef]

\* The results runIntent returns (route.ts 259-712), by shape: a list kind
\* with items, the empty kind, the brand object with and without top queries,
\* and the drilldown kinds, which carry context.pageUrl.
SampleResults(t) ==
    { [intent |-> "TOP_LOSERS_QUERIES", kind |-> "query_deltas", totals |-> t,
       items |-> ArrayItems(<<QueryItem("shoes", -20)>>), context |-> NoContext],
      [intent |-> "TOP_LOSERS_QUERIES", kind |-> "empty", totals |-> t,
       items |-> ArrayItems(<<>>), context |-> NoContext],
      [intent |-> "TOP_WINNERS_PAGES", kind |-> "page_deltas", totals |-> t,
       items |-> ArrayItems(<<PageItem("/a", 5), PageItem("/b", 3)>>), context |-> NoContext],
      [intent |-> "CANNIBALIZATION_QUERIES", kind |-> "query_page_cannibalization", totals |-> t,
       items |-> ArrayItems(<<CannibalItem("boots", 2)>>), context |-> NoContext],
      [intent |-> "BRAND_VS_NONBRAND", kind |-> "brand_vs_nonbrand", totals |-> t,
       items |-> BrandItems(t, <<QueryItem("acme shoes", 4)>>, <<>>), context |-> NoContext],
      [intent |-> "BRAND_VS_NONBRAND", kind |-> "brand_vs_nonbrand", totals |-> t,
       items |-> BrandItems(t, <<>>, <<>>), context |-> NoContext],
      [intent |-> "DRILLDOWN_PAGE_TO_QUERIES", kind |-> "page_drilldown", totals |-> t,
       items |-> ArrayItems(<<QueryItem("shoes", 1)>>), context |-> [pageUrl |-> "https://x/a"]],
      [intent |-> "DRILLDOWN_PAGE_TO_QUERIES", kind |-> "empty", totals |-> t,
       items |-> ArrayItems(<<>>), context |-> [pageUrl |-> "https://x/a"]] }

\* input.intent: absent, or any intent value; those below are the ones the
\* synthesizer's branches tell apart, and one it treats like the rest.
SampleIntents ==
    {Undef, "TOP_LOSERS_QUERIES", "CANNIBALIZATION_QUERIES", "BRAND_VS_NONBRAND",
     "DRILLDOWN_PAGE_TO_QUERIES", "SOMETHING_ELSE"}

InitAnswer ==
    /\ \E t \in SampleTotals :
         \E results \in SeqsUpTo(SampleResults(t), MaxResults) :
            \E intent \in SampleIntents :
               v2Input = [intent |-> intent, results |-> results]
    /\ v2 = None
    /\ current = None /\ previousRange = None
    /\ currRows = None /\ prevRows = None /\ merged = None
    /\ answer = None /\ markdown = None
    /\ RequestParked
    /\ NormalizeParked
    /\ ChatParked
    /\ WebhookParked
    /\ OAuthParked

BuildV2Answer ==
    /\ v2 = None
    /\ v2' = buildV2Answer(v2Input)
    /\ UNCHANGED <<v2Input, rangeVars, mergeVars, renderVars, requestVars, normalizeVars,
                 chatVars, webhookVars, oauthVars>>

NextAnswer == BuildV2Answer

SpecAnswer == InitAnswer /\ [][NextAnswer]_vars

\* C7: for every input to buildV2Answer (no result, one or several, of any
\* kinds, all-empty included, and any intent value) the Answer has 4-8
\* keyFindings, 3-6 likelyCauses and 3-7 recommendedActions, each action's
\* priority one of the three labels.
C7_AnswerCounts ==
    v2 # None =>
        /\ Len(v2.keyFindings) \in 4..8
        /\ Len(v2.likelyCauses) \in 3..6
        /\ Len(v2.recommendedActions) \in 3..7
        /\ \A i \in DOMAIN v2.recommendedActions :
              v2.recommendedActions[i].priority \in Priorities

\* An answer has been built from two results that yield more than eight
\* findings, cut to eight.
C7_Witness ==
    /\ v2 # None
    /\ Len(v2Input.results) = 2
    /\ v2Input.results[1].kind = "query_deltas"
    /\ v2Input.results[2].kind = "brand_vs_nonbrand"
    /\ Len(v2.keyFindings) = 8
    /\ Len(v2.recommendedActions) >= 5

ItemsIn(r) ==
    IF IsArray(r.items) THEN Len(r.items.list)
    ELSE Len(r.items.brand.topQueries) + Len(r.items.nonBrand.topQueries)

HasItems(results) == \E i \in DOMAIN results : ItemsIn(results[i]) > 0

LevelFor(m) == IF m >= 5000 THEN "High" ELSE IF m >= 500 THEN "Medium" ELSE "Low"

\* C8: with a non-empty primary result that has at least one item (for
\* brand_vs_nonbrand: a top query in either split) the confidence level is
\* High, Medium or Low by m = min(current, previous impressions of the
\* primary) against 5000 and 500; with an empty primary result, or no item in
\* the results, it is Low.
C8_Confidence ==
    (v2 # None /\ Len(v2Input.results) > 0) =>
        LET results == v2Input.results
            primary == results[PrimaryIndex(results)]
            m == Min(primary.totals.current.impressions, primary.totals.previous.impressions)
        IN  /\ (primary.kind # "empty" /\ ItemsIn(primary) > 0)
                  => v2.confidence.level = LevelFor(m)
            /\ (primary.kind = "empty" \/ ~HasItems(results))
                  => v2.confidence.level = "Low"

(***************************************************************************)
(* The rows the Search Console query route returns, and their reading      *)
(***************************************************************************)
\* A JSON value that is a number, or anything else (absent, a string, null).
Num(n) == [num |-> TRUE, v |-> n]
NotANumber == [num |-> FALSE, v |-> 0]

\* An entry of a keys array that is not a string.
NotAString == "(not a string)"

\* Raw rows: a dimension row carries a keys array, a totals row (no
\* dimensions requested) carries none.
RawRow(keys, clicks, impressions, ctr, position) ==
    [keys |-> [array |-> TRUE, list |-> keys], clicks |-> clicks,
     impressions |-> impressions, ctr |-> ctr, position |-> position]
RawTotals(clicks, impressions, ctr, position) ==
    [keys |-> [array |-> FALSE, list |-> <<>>], clicks |-> clicks,
     impressions |-> impressions, ctr |-> ctr, position |-> position]

\* typeof x === "number" ? x : 0
NumberOrZero(x) == IF x.num THEN x.v ELSE 0

\* ctr is held in units of 1/10000, so the decimal 1 is 10000.
CtrOne == 10000

normalizeCtr(raw) == IF raw > CtrOne THEN raw \div 100 ELSE raw

\* The normalized row as a list of none or one row (undefined or the row).
normalizeGscRow(raw) ==
    LET keys == IF raw.keys.array
                THEN SelectSeq(raw.keys.list, LAMBDA k : k # NotAString)
                ELSE <<>>
        ctrRaw == NumberOrZero(raw.ctr)
    IN  IF Len(keys) = 0 THEN <<>>
        ELSE << [keys |-> keys,
                 clicks |-> NumberOrZero(raw.clicks),
                 impressions |-> NumberOrZero(raw.impressions),
                 ctr |-> IF ctrRaw > CtrOne THEN ctrRaw \div 100 ELSE ctrRaw,
                 position |-> NumberOrZero(raw.position)] >>

RECURSIVE FlatMap(_)
FlatMap(lists) ==
    IF lists = <<>> THEN <<>> ELSE Head(lists) \o FlatMap(Tail(lists))

\* queryRows: (data.rows ?? []).map(normalizeGscRow).filter(Boolean)
queryRows(rows) == FlatMap([i \in DOMAIN rows |-> normalizeGscRow(rows[i])])

\* queryTotals: the first row's numbers, zero for what is missing.
queryTotals(rows) ==
    IF Len(rows) = 0
    THEN [clicks |-> 0, impressions |-> 0, ctr |-> 0, position |-> 0]
    ELSE [clicks |-> NumberOrZero(rows[1].clicks),
          impressions |-> NumberOrZero(rows[1].impressions),
          ctr |-> IF rows[1].ctr.num THEN normalizeCtr(rows[1].ctr.v) ELSE 0,
          position |-> NumberOrZero(rows[1].position)]

(***************************************************************************)
(* The Search Console data of a site, as the query route serves it         *)
(***************************************************************************)
Row(keys, clicks, impressions, ctr, position) ==
    RawRow(keys, Num(clicks), Num(impressions), Num(ctr), Num(position))
Totals(clicks, impressions, ctr, position) ==
    RawTotals(Num(clicks), Num(impressions), Num(ctr), Num(position))

\* A site with traffic in both periods: queries and pages that pass every
\* intent's filter.
BusySite(range, dimensions, filter) ==
    LET cur == range = "current"
    IN  IF dimensions = <<>> THEN
            CASE filter = "none"     -> IF cur THEN <<Totals(180, 3000, 600, 45)>>
                                               ELSE <<Totals(200, 2500, 800, 52)>>
              [] filter = "page"     -> IF cur THEN <<Totals(50, 800, 625, 38)>>
                                               ELSE <<Totals(60, 700, 857, 41)>>
              [] filter = "brand"    -> IF cur THEN <<Totals(10, 500, 200, 80)>> ELSE <<>>
              [] filter = "nonBrand" -> IF cur THEN <<Totals(170, 2500, 680, 40)>>
                                               ELSE <<Totals(200, 2500, 800, 52)>>
        ELSE IF dimensions = <<"query">> THEN
            CASE filter = "none"     -> IF cur THEN <<Row(<<"shoes">>, 80, 1000, 800, 40),
                                                      Row(<<"acme boots">>, 10, 500, 200, 80)>>
                                               ELSE <<Row(<<"shoes">>, 100, 900, 1111, 50)>>
              [] filter = "page"     -> IF cur THEN <<Row(<<"shoes">>, 30, 400, 750, 35)>>
                                               ELSE <<Row(<<"shoes">>, 40, 300, 1333, 42)>>
              [] filter = "brand"    -> IF cur THEN <<Row(<<"acme boots">>, 10, 500, 200, 80)>>
                                               ELSE <<>>
              [] filter = "nonBrand" -> IF cur THEN <<Row(<<"shoes">>, 80, 1000, 800, 40)>>
                                               ELSE <<Row(<<"boots">>, 15, 200, 750, 60),
                                                      Row(<<"shoes">>, 100, 900, 1111, 50)>>
        ELSE IF dimensions = <<"page">> THEN
            IF cur THEN <<Row(<<"/b">>, 20, 2000, 100, 60), Row(<<"/a">>, 60, 1000, 600, 30)>>
                   ELSE <<Row(<<"/a">>, 90, 1500, 600, 45)>>
        ELSE
            IF cur THEN <<Row(<<"shoes", "/a">>, 30, 400, 750, 35),
                          Row(<<"shoes", "/b">>, 20, 300, 667, 50)>>
                   ELSE <<Row(<<"shoes", "/a">>, 40, 300, 1333, 42)>>

\* A site whose rows every filtering intent rejects: no query lost clicks or
\* has a low ctr, no query is served by two pages, no brand query and no
\* query of the drilled page; some rows are malformed, and ctr is given as a
\* percentage.
QuietSite(range, dimensions, filter) ==
    LET cur == range = "current"
    IN  IF dimensions = <<>> THEN <<Totals(100, 50, 500000, 120)>>
        ELSE IF dimensions = <<"query">> THEN
            IF filter = "none"
            THEN IF cur THEN <<Row(<<"shoes">>, 100, 50, 500000, 120),
                               Totals(5, 5, 5, 5),
                               Row(<<NotAString>>, 7, 7, 7, 7)>>
                        ELSE <<Row(<<"shoes">>, 100, 50, 500000, 120)>>
            ELSE <<>>
        ELSE IF dimensions = <<"page">> THEN
            IF cur THEN <<RawRow(<<"/a">>, Num(100), NotANumber, Num(500000), Num(120))>>
                   ELSE <<>>
        ELSE
            IF cur THEN <<Row(<<"shoes", "/a">>, 100, 50, 500000, 120),
                          Row(<<"boots", "">>, 5, 50, 1000, 90)>>
                   ELSE <<>>

\* A site that lost clicks on every query: two queries and two pages lost
\* the same number of clicks, one query has rows in the previous period
\* only, and several queries are served by two pages, one of them with
\* exactly 80% of its clicks on one page. The rows come in no useful order.
ShiftingSite(range, dimensions, filter) ==
    LET cur == range = "current"
    IN  IF dimensions = <<>> THEN
            IF cur THEN <<Totals(60, 1500, 400, 50)>> ELSE <<Totals(90, 1600, 563, 45)>>
        ELSE IF filter # "none" THEN <<>>
        ELSE IF dimensions = <<"query">> THEN
            IF cur THEN <<Row(<<"shoes">>, 10, 200, 500, 30),
                          Row(<<"boots">>, 10, 250, 400, 20)>>
                   ELSE <<Row(<<"shoes">>, 15, 200, 750, 40),
                          Row(<<"boots">>, 15, 250, 600, 25),
                          Row(<<"acme boots">>, 20, 100, 2000, 80)>>
        ELSE IF dimensions = <<"page">> THEN
            IF cur THEN <<Row(<<"/b">>, 20, 400, 500, 35), Row(<<"/a">>, 20, 300, 667, 30)>>
                   ELSE <<Row(<<"/b">>, 25, 400, 625, 40), Row(<<"/a">>, 25, 300, 833, 33)>>
        ELSE
            IF cur THEN <<Row(<<"socks", "/a">>, 80, 900, 889, 20),
                          Row(<<"socks", "/b">>, 20, 300, 667, 60),
                          Row(<<"sandals", "/a">>, 30, 400, 750, 35),
                          Row(<<"sandals", "/b">>, 20, 300, 667, 50),
                          Row(<<"acme boots", "/b">>, 20, 300, 667, 50),
                          Row(<<"acme boots", "/a">>, 30, 400, 750, 35),
                          Row(<<"boots", "/a">>, 25, 400, 625, 35),
                          Row(<<"boots", "/b">>, 25, 300, 833, 50),
                          Row(<<"shoes", "/b">>, 24, 300, 800, 50),
                          Row(<<"shoes", "/a">>, 36, 400, 900, 35)>>
                   ELSE <<Row(<<"shoes", "/a">>, 40, 300, 1333, 42)>>

\* A site without any traffic: every query returns zero rows.
EmptySite(range, dimensions, filter) == <<>>

Sites == {"busy", "quiet", "empty", "shifting"}

\* What the Search Console query route answers to a payload when it answers:
\* at most rowLimit rows.
Upstream(site, payload) ==
    LET rows == CASE site = "busy"  -> BusySite(payload.range, payload.dimensions, payload.filter)
                  [] site = "quiet" -> QuietSite(payload.range, payload.dimensions, payload.filter)
                  [] site = "empty" -> EmptySite(payload.range, payload.dimensions, payload.filter)
                  [] site = "shifting" ->
                        ShiftingSite(payload.range, payload.dimensions, payload.filter)
    IN  SubSeq(rows, 1, Min(Len(rows), payload.rowLimit))

(***************************************************************************)
(* runIntent: the items of each intent                                     *)
(***************************************************************************)
\* String(a).localeCompare(String(b)) over the keys of the sites above:
\* negative, zero or positive by the keys' places in the collation order.
Collation == <<"", "/a", "/b", "acme boots", "boots", "sandals", "shoes", "socks">>
localeCompare(a, b) ==
    LET Place(s) == CHOOSE i \in DOMAIN Collation : Collation[i] = s
    IN  Place(a) - Place(b)

\* a || b || c: the first difference that is not zero
FirstNonZero(diffs) ==
    LET nonZero == {i \in DOMAIN diffs : diffs[i] # 0}
    IN  IF nonZero = {} THEN 0
        ELSE diffs[CHOOSE i \in nonZero : \A j \in nonZero : i <= j]

\* impressionsCurrent * (1 - ctrCurrent), in units of 1/10000
Score(r) == r.impressionsCurrent * (CtrOne - r.ctrCurrent)

\* The sign of a.concentration - b.concentration, concentrations being
\* fractions [n, d] with d > 0.
ConcentrationDiff(a, b) == a.n * b.d - b.n * a.d

\* The comparators the intents sort with (route.ts 253-257, 290-294,
\* 331-337, 373-378, 418-424, 616-621, 687-692, and toAgg's 587-592).
Compare(intent, a, b) ==
    CASE intent \in {"TOP_LOSERS_QUERIES", "TOP_LOSERS_PAGES"} ->
            FirstNonZero(<<a.deltaClicks - b.deltaClicks, localeCompare(a.key, b.key)>>)
      [] intent \in {"TOP_WINNERS_QUERIES", "TOP_WINNERS_PAGES"} ->
            FirstNonZero(<<b.deltaClicks - a.deltaClicks, localeCompare(a.key, b.key)>>)
      [] intent = "HIGH_IMPRESS_LOW_CTR_PAGES" ->
            FirstNonZero(<<Score(b) - Score(a), b.impressionsCurrent - a.impressionsCurrent,
                           a.ctrCurrent - b.ctrCurrent, localeCompare(a.key, b.key)>>)
      [] intent = "POSITION_UP_CLICKS_DOWN_QUERIES" ->
            FirstNonZero(<<a.deltaClicks - b.deltaClicks, b.deltaPosition - a.deltaPosition,
                           localeCompare(a.key, b.key)>>)
      [] intent = "CTR_OPPORTUNITIES_QUERIES" ->
            FirstNonZero(<<b.impressionsCurrent - a.impressionsCurrent,
                           a.ctrCurrent - b.ctrCurrent,
                           a.positionCurrent - b.positionCurrent,
                           localeCompare(a.key, b.key)>>)
      [] intent = "CANNIBALIZATION_QUERIES" ->
            FirstNonZero(<<b.current.totalClicks - a.current.totalClicks,
                           ConcentrationDiff(a.current.concentration, b.current.concentration),
                           localeCompare(a.query, b.query)>>)
      [] intent = "DRILLDOWN_PAGE_TO_QUERIES" ->
            FirstNonZero(<<b.clicksCurrent - a.clicksCurrent,
                           b.impressionsCurrent - a.impressionsCurrent,
                           localeCompare(a.key, b.key)>>)
      [] intent = "toAgg" ->
            FirstNonZero(<<b.clicks - a.clicks, b.impressions - a.impressions,
                           localeCompare(a.page, b.page)>>)

\* Array.prototype.sort, which is stable.
RECURSIVE InsertSorted(_, _, _)
InsertSorted(intent, sorted, x) ==
    IF sorted = <<>> THEN <<x>>
    ELSE IF Compare(intent, Head(sorted), x) <= 0
         THEN <<Head(sorted)>> \o InsertSorted(intent, Tail(sorted), x)
         ELSE <<x>> \o sorted

\* The mutant leaves the rows in the order they came in.
Sort_Unsorted(intent, s) == s

RECURSIVE Sort(_, _)
Sort(intent, s) ==
    IF s = <<>> THEN <<>>
    ELSE InsertSorted(intent, Sort(intent, SubSeq(s, 1, Len(s) - 1)), s[Len(s)])

\* The mutant never cuts.
Slice_NoCut(s, n) == s

\* items.slice(0, n)
Slice(s, n) == SubSeq(s, 1, Min(Len(s), n))

\* A DeltaRow as an item of a result: the merge names the key field query or
\* page; the row's numbers are kept under metrics.
DeltaItem(r) ==
    [query |-> IF r.keyName = "query" THEN r.key ELSE Undef,
     page |-> IF r.keyName = "page" THEN r.key ELSE Undef,
     deltaClicks |-> r.deltaClicks, pageCount |-> 0, metrics |-> r]

DeltaItems(rows) == [i \in DOMAIN rows |-> DeltaItem(rows[i])]

\* toMap (route.ts 555-572): the queries of the rows in first-seen order, and
\* the pages of a query; rows without a query or a page are skipped.
PairRows(rows) ==
    SelectSeq(rows, LAMBDA r : Len(r.keys) >= 2 /\ r.keys[1] # "" /\ r.keys[2] # "")
QueriesOf(rows) == Distinct([i \in DOMAIN PairRows(rows) |-> PairRows(rows)[i].keys[1]])
PagesOf(rows, query) ==
    LET hits == SelectSeq(PairRows(rows), LAMBDA r : r.keys[1] = query)
    IN  [i \in DOMAIN hits |-> [page |-> hits[i].keys[2], clicks |-> hits[i].clicks,
                                impressions |-> hits[i].impressions]]

RECURSIVE SumOf(_, _)
SumOf(s, field) == IF s = <<>> THEN 0 ELSE Head(s)[field] + SumOf(Tail(s), field)

\* toAgg (route.ts 585-601); the concentration is kept as a fraction.
toAgg(pages) ==
    LET sorted == Sort("toAgg", pages)
        totalClicks == SumOf(sorted, "clicks")
    IN  [pageCount |-> Len(sorted),
         totalClicks |-> totalClicks,
         totalImpressions |-> SumOf(sorted, "impressions"),
         concentration |-> IF totalClicks > 0 THEN [n |-> sorted[1].clicks, d |-> totalClicks]
                                              ELSE [n |-> 1, d |-> 1],
         topPages |-> Slice(sorted, 5)]

\* The mutant also keeps a query whose top page has exactly 80% of the
\* clicks.
CannibalizationItems_UpTo80(curr, prv) ==
    LET queries == Distinct(QueriesOf(curr) \o QueriesOf(prv))
        out == [i \in DOMAIN queries |->
                   LET currAgg == toAgg(PagesOf(curr, queries[i]))
                       prevAgg == toAgg(PagesOf(prv, queries[i]))
                   IN  [query |-> queries[i], page |-> Undef,
                        current |-> currAgg, previous |-> prevAgg,
                        pageCount |-> currAgg.pageCount,
                        deltaClicks |-> currAgg.totalClicks - prevAgg.totalClicks]]
        kept == SelectSeq(out, LAMBDA x : /\ x.current.pageCount >= 2
                                          /\ x.current.totalClicks > 0
                                          /\ x.current.concentration.n * 10
                                                <= 8 * x.current.concentration.d)
    IN  Sort("CANNIBALIZATION_QUERIES", kept)

\* route.ts 574-623: one candidate per query of either period, kept when the
\* current period spreads its clicks over two pages or more.
CannibalizationItems(curr, prv) ==
    LET queries == Distinct(QueriesOf(curr) \o QueriesOf(prv))
        out == [i \in DOMAIN queries |->
                   LET currAgg == toAgg(PagesOf(curr, queries[i]))
                       prevAgg == toAgg(PagesOf(prv, queries[i]))
                   IN  [query |-> queries[i], page |-> Undef,
                        current |-> currAgg, previous |-> prevAgg,
                        pageCount |-> currAgg.pageCount,
                        deltaClicks |-> currAgg.totalClicks - prevAgg.totalClicks]]
        kept == SelectSeq(out, LAMBDA x : /\ x.current.pageCount >= 2
                                          /\ x.current.totalClicks > 0
                                          /\ x.current.concentration.n * 10
                                                < 8 * x.current.concentration.d)
    IN  Sort("CANNIBALIZATION_QUERIES", kept)

\* The dimension an intent's rows are keyed by.
KeyField(intent) ==
    IF intent \in {"TOP_WINNERS_PAGES", "TOP_LOSERS_PAGES", "HIGH_IMPRESS_LOW_CTR_PAGES"}
    THEN "page" ELSE "query"

\* The filter an intent applies to the merged rows (route.ts 369-371,
\* 410-417); the other intents keep every row. Positions are in tenths, ctr
\* in 1/10000.
Keeps(intent, r) ==
    CASE intent = "POSITION_UP_CLICKS_DOWN_QUERIES" -> r.deltaClicks < 0 /\ r.deltaPosition > 0
      [] intent = "CTR_OPPORTUNITIES_QUERIES" ->
            /\ r.impressionsCurrent >= 100
            /\ r.positionCurrent > 0 /\ r.positionCurrent <= 100
            /\ r.ctrCurrent <= 300
      [] OTHER -> TRUE

\* The item list of every intent but BRAND_VS_NONBRAND: merged (or
\* aggregated), filtered, sorted and cut to rowLimit.
IntentItems(intent, curr, prv, rowLimit) ==
    IF intent = "CANNIBALIZATION_QUERIES"
    THEN Slice(CannibalizationItems(curr, prv), rowLimit)
    ELSE LET merged_ == mergeDeltas(curr, prv, KeyField(intent))
             kept == SelectSeq(merged_, LAMBDA r : Keeps(intent, r))
         IN  DeltaItems(Slice(Sort(intent, kept), rowLimit))

(***************************************************************************)
(* runIntent: arguments, row limit, fetches and the result                 *)
(***************************************************************************)
\* An optional text argument: a sequence of characters, or absent. A piece of
\* text without blanks in it, such as a URL, is one element.
Text(chars) == [given |-> TRUE, chars |-> chars]
NoText == [given |-> FALSE, chars |-> <<>>]

\* The string of a trimmed text: empty, or its one element.
Joined(chars) == IF Len(chars) = 0 THEN "" ELSE chars[1]

\* The user's message as a sequence of words and phrases. The route reads two
\* things off it: the first http(s) URL (extractFirstUrl, route.ts 60-63) and
\* whether it asks for more rows (userAskedForMoreRows, route.ts 46-51).
UrlWords == {"https://x/a", "https://x/b"}
MoreRowsWords == {"more rows", "top 500", "300"}

\* The mutant takes the last URL of the message.
extractFirstUrl_Last(message) ==
    LET hits == {i \in DOMAIN message : message[i] \in UrlWords}
    IN  IF hits = {} THEN NoText
        ELSE Text(<<message[CHOOSE i \in hits : \A j \in hits : i >= j]>>)

extractFirstUrl(message) ==
    LET hits == {i \in DOMAIN message : message[i] \in UrlWords}
    IN  IF hits = {} THEN NoText
        ELSE Text(<<message[CHOOSE i \in hits : \A j \in hits : i <= j]>>)

userAskedForMoreRows(message) == \E i \in DOMAIN message : message[i] \in MoreRowsWords

DefaultRowLimit == 250
MaxRowLimit == 1000
RowBudget == 1000
BrandTopLimit == 250

clampRowLimit(message, rowLimit) ==
    LET value == IF rowLimit.num THEN rowLimit.v ELSE DefaultRowLimit
        capped == IF userAskedForMoreRows(message) THEN Min(value, MaxRowLimit)
                                                   ELSE Min(value, DefaultRowLimit)
    IN  Max(1, capped)

\* The mutant gives every call the cap of a single call.
perCallCap_Undivided(n) == Max(1, RowBudget \div 2)

\* route.ts 850: the cap each of n dispatched intents gets
perCallCap(n) == Max(1, RowBudget \div (2 * n))

\* route.ts 134-136
RowLimitOf(message, args, rowLimitCap) ==
    Max(1, Min(clampRowLimit(message, args.rowLimit), rowLimitCap))

\* route.ts 138-147: a page URL, given or found in the message, turns the
\* call into a drilldown of that page.
EffectiveArgs(message, args) ==
    LET pageUrlFromUser == IF args.pageUrl.given THEN args.pageUrl ELSE extractFirstUrl(message)
        truthy == pageUrlFromUser.given /\ Len(pageUrlFromUser.chars) > 0
    IN  IF truthy /\ args.intent # "DRILLDOWN_PAGE_TO_QUERIES"
        THEN [args EXCEPT !.intent = "DRILLDOWN_PAGE_TO_QUERIES", !.pageUrl = pageUrlFromUser]
        ELSE IF args.intent = "DRILLDOWN_PAGE_TO_QUERIES" /\ ~args.pageUrl.given /\ truthy
        THEN [args EXCEPT !.pageUrl = pageUrlFromUser]
        ELSE args

\* (args.brandTerms ?? []).map((t) => t.trim()).filter(Boolean)
BrandTermsOf(args) ==
    SelectSeq([i \in DOMAIN args.brandTerms |-> Trim(args.brandTerms[i])],
              LAMBDA t : Len(t) > 0)

\* (args.pageUrl ?? "").trim()
PageUrlOf(args) == Joined(Trim(args.pageUrl.chars))

\* The awaits of runIntent, each a Promise.all over the fetches named.
StageFetches(stage) ==
    CASE stage = "totals"     -> {"totalsCurrent", "totalsPrevious"}
      [] stage = "rows"       -> {"rowsCurrent", "rowsPrevious"}
      [] stage = "pageTotals" -> {"pageTotalsCurrent", "pageTotalsPrevious"}
      [] stage = "brand"      -> {"brandCurrentTotals", "brandPreviousTotals",
                                  "nonBrandCurrentTotals", "nonBrandPreviousTotals",
                                  "brandCurrentTop", "brandPreviousTop",
                                  "nonBrandCurrentTop", "nonBrandPreviousTop"}
      [] OTHER                -> {}

\* What follows an await that has resolved: the next await, the return
\* ("done"), or a throw for a missing parameter ("throw").
NextStage(args, stage) ==
    CASE stage = "totals" ->
            IF args.intent = "BRAND_VS_NONBRAND"
            THEN (IF Len(BrandTermsOf(args)) = 0 THEN "throw" ELSE "brand")
            ELSE IF args.intent = "DRILLDOWN_PAGE_TO_QUERIES"
            THEN (IF PageUrlOf(args) = "" THEN "throw" ELSE "pageTotals")
            ELSE "rows"
      [] stage = "pageTotals" -> "rows"
      [] OTHER -> "done"

InvalidParameters(args) ==
    [hasStatus |-> FALSE, status |-> 0,
     message |-> IF args.intent = "BRAND_VS_NONBRAND"
                 THEN <<"BRAND_VS_NONBRAND requires brandTerms (string[]).">>
                 ELSE <<"DRILLDOWN_PAGE_TO_QUERIES requires pageUrl.">>]

\* The payload of each fetch (route.ts 159-160, 242, 247-250, ..., 661-681):
\* the period, the dimensions, the filter group and the row limit.
Payload(args, rowLimit, fetch) ==
    LET range == IF fetch \in {"totalsCurrent", "rowsCurrent", "pageTotalsCurrent",
                               "brandCurrentTotals", "nonBrandCurrentTotals",
                               "brandCurrentTop", "nonBrandCurrentTop"}
                 THEN "current" ELSE "previous"
        isTotals == fetch \in {"totalsCurrent", "totalsPrevious",
                               "pageTotalsCurrent", "pageTotalsPrevious",
                               "brandCurrentTotals", "brandPreviousTotals",
                               "nonBrandCurrentTotals", "nonBrandPreviousTotals"}
        filter ==
            CASE fetch \in {"totalsCurrent", "totalsPrevious"} -> "none"
              [] fetch \in {"pageTotalsCurrent", "pageTotalsPrevious"} -> "page"
              [] fetch \in {"brandCurrentTotals", "brandPreviousTotals",
                            "brandCurrentTop", "brandPreviousTop"} -> "brand"
              [] fetch \in {"nonBrandCurrentTotals", "nonBrandPreviousTotals",
                            "nonBrandCurrentTop", "nonBrandPreviousTop"} -> "nonBrand"
              [] OTHER -> IF args.intent = "DRILLDOWN_PAGE_TO_QUERIES" THEN "page" ELSE "none"
        dimensions ==
            IF isTotals THEN <<>>
            ELSE IF args.intent = "CANNIBALIZATION_QUERIES" THEN <<"query", "page">>
            ELSE <<KeyField(args.intent)>>
    IN  [range |-> range, dimensions |-> dimensions, filter |-> filter,
         rowLimit |-> IF isTotals THEN 1
                      ELSE IF args.intent = "BRAND_VS_NONBRAND"
                           THEN Min(rowLimit, BrandTopLimit) ELSE rowLimit]

\* The kind of a result that has items.
KindOf(intent) ==
    CASE intent \in {"TOP_WINNERS_QUERIES", "TOP_LOSERS_QUERIES",
                     "POSITION_UP_CLICKS_DOWN_QUERIES", "CTR_OPPORTUNITIES_QUERIES"}
            -> "query_deltas"
      [] intent \in {"TOP_WINNERS_PAGES", "TOP_LOSERS_PAGES", "HIGH_IMPRESS_LOW_CTR_PAGES"}
            -> "page_deltas"
      [] intent = "CANNIBALIZATION_QUERIES" -> "query_page_cannibalization"
      [] intent = "BRAND_VS_NONBRAND" -> "brand_vs_nonbrand"
      [] intent = "DRILLDOWN_PAGE_TO_QUERIES" -> "page_drilldown"

\* The return of every branch but BRAND_VS_NONBRAND: kind empty with no items
\* when the item list is empty, the intent's kind with the items otherwise.
ListResult(intent, rowLimit, totals, items, context) ==
    IF Len(items) = 0
    THEN [intent |-> intent, rowLimit |-> rowLimit, totals |-> totals,
          kind |-> "empty", items |-> ArrayItems(<<>>), context |-> context]
    ELSE [intent |-> intent, rowLimit |-> rowLimit, totals |-> totals,
          kind |-> KindOf(intent), items |-> ArrayItems(items), context |-> context]

\* What runIntent returns when every fetch has answered, the answers being
\* those of the site (route.ts 129-712). The preset and the two date ranges
\* of the result are left out; computePreviousRange is modelled above.
runIntent(site, message, inputArgs, rowLimitCap) ==
    LET args == EffectiveArgs(message, inputArgs)
        rowLimit == RowLimitOf(message, inputArgs, rowLimitCap)
        Fetched(fetch) == Upstream(site, Payload(args, rowLimit, fetch))
        totals == [current |-> queryTotals(Fetched("totalsCurrent")),
                   previous |-> queryTotals(Fetched("totalsPrevious"))]
    IN  IF args.intent = "BRAND_VS_NONBRAND" THEN
            LET topLimit == Min(rowLimit, BrandTopLimit)
                Top(curr, prv) ==
                    DeltaItems(Slice(mergeDeltas(queryRows(Fetched(curr)),
                                                 queryRows(Fetched(prv)), "query"), topLimit))
            IN  [intent |-> args.intent, rowLimit |-> rowLimit, totals |-> totals,
                 kind |-> "brand_vs_nonbrand",
                 items |-> [array |-> FALSE,
                            brandTerms |-> BrandTermsOf(args),
                            brand |-> [totals |-> [current |-> queryTotals(Fetched("brandCurrentTotals")),
                                                   previous |-> queryTotals(Fetched("brandPreviousTotals"))],
                                       topQueries |-> Top("brandCurrentTop", "brandPreviousTop")],
                            nonBrand |-> [totals |-> [current |-> queryTotals(Fetched("nonBrandCurrentTotals")),
                                                      previous |-> queryTotals(Fetched("nonBrandPreviousTotals"))],
                                          topQueries |-> Top("nonBrandCurrentTop", "nonBrandPreviousTop")]],
                 context |-> NoContext]
        ELSE
            LET items == IntentItems(args.intent, queryRows(Fetched("rowsCurrent")),
                                     queryRows(Fetched("rowsPrevious")), rowLimit)
            IN  IF args.intent = "DRILLDOWN_PAGE_TO_QUERIES"
                THEN ListResult(args.intent, rowLimit,
                                [current |-> queryTotals(Fetched("pageTotalsCurrent")),
                                 previous |-> queryTotals(Fetched("pageTotalsPrevious"))],
                                items, [pageUrl |-> PageUrlOf(args)])
                ELSE ListResult(args.intent, rowLimit, totals, items, NoContext)

(***************************************************************************)
(* POST /api/chat: dispatch of the tool calls, and the response            *)
(***************************************************************************)
\* How a fetch of the query route fails: the route replies with a status
\* that is not ok, with or without a JSON error text, or the fetch itself
\* rejects (a network failure), which carries no status.
FailedReplies ==
    { [replied |-> TRUE, status |-> 401,
       error |-> Text(<<"Not connected", " to Google Search Console.">>)],
      [replied |-> TRUE, status |-> 401,
       error |-> Text(<<"Session expired or invalid. Please continue with Google again.">>)],
      [replied |-> TRUE, status |-> 400, error |-> Text(<<"Invalid request body.">>)],
      [replied |-> TRUE, status |-> 500, error |-> NoText],
      [replied |-> FALSE, status |-> 0, error |-> Text(<<"fetch failed">>)] }

\* callInternalGscQuery (route.ts 95-122): the Error thrown for a reply that
\* is not ok carries the reply's error text, or a text made of the status,
\* and the status.
callInternalGscQuery(reply) ==
    IF ~reply.replied
    THEN [hasStatus |-> FALSE, status |-> 0, message |-> reply.error.chars]
    ELSE [hasStatus |-> TRUE, status |-> reply.status,
          message |-> IF reply.error.given THEN reply.error.chars
                      ELSE <<"GSC query failed (", ToString(reply.status), ").">>]

\* msg.toLowerCase().includes("not connected"), over the texts above
toLowerCase(word) == IF word = "Not connected" THEN "not connected" ELSE word
IncludesNotConnected(message) ==
    \E i \in DOMAIN message : toLowerCase(message[i]) = "not connected"

\* The mutant answers every failure with status 500.
ErrorResponse_Always500(err) ==
    [type |-> "error", status |-> 500, error |-> err.message]

\* route.ts 858-866: the response to a rejected dispatch
ErrorResponse(err) ==
    IF (err.hasStatus /\ err.status = 401) \/ IncludesNotConnected(err.message)
    THEN [type |-> "error", status |-> 401, error |-> err.message]
    ELSE [type |-> "error", status |-> 500, error |-> err.message]

\* Promise.all rejects with the first rejection among its promises, and the
\* catch block runs once: a later rejection changes nothing.
Catch(sent, err) == IF sent # None THEN sent ELSE ErrorResponse(err)

Pending == [state |-> "pending", value |-> None]
Resolved(result) == [state |-> "resolved", value |-> result]
Rejected(err) == [state |-> "rejected", value |-> err]

\* A promise settles once.
Settle(settled, outcome) == IF settled.state = "pending" THEN outcome ELSE settled

AllFetches ==
    StageFetches("totals") \cup StageFetches("rows") \cup StageFetches("pageTotals")
        \cup StageFetches("brand")

\* The fetches of a stage are issued when the stage is entered.
Issue(issued, stage) ==
    [f \in AllFetches |-> IF f \in StageFetches(stage) THEN issued[f] + 1 ELSE issued[f]]

\* route.ts 869-882: the answer built and rendered from the results
AnswerResponse(results) ==
    LET intentForAnswer == IF Len(results) = 1 THEN results[1].intent ELSE Undef
        built == buildV2Answer([intent |-> intentForAnswer, results |-> results])
    IN  [type |-> "answer", status |-> 200,
         answer |-> renderV2AnswerMarkdown(built), data |-> results]

\* At most this many fetches of one request are followed into failure.
MaxFailures == 2

Messages ==
    { <<"why did clicks drop">>, <<"what about", "https://x/a">>, <<"show", "top 500">>,
      <<"compare", "https://x/b", "with", "https://x/a">> }

ArgsFor(intent) ==
    [intent |-> intent, rowLimit |-> NotANumber,
     brandTerms |-> IF intent = "BRAND_VS_NONBRAND" THEN << <<"acme">> >> ELSE <<>>,
     pageUrl |-> IF intent = "DRILLDOWN_PAGE_TO_QUERIES" THEN Text(<<"https://x/a">>) ELSE NoText]

\* The tool calls ToolArgsSchema lets through (route.ts 28-34): every intent
\* with what it needs, and calls that lack it: no brand terms, blank brand
\* terms, no page URL, a blank page URL; row limits of 1 and 1000.
SampleArgs ==
    {ArgsFor(intent) : intent \in Intents}
    \cup { [ArgsFor("BRAND_VS_NONBRAND") EXCEPT !.brandTerms = <<>>],
           [ArgsFor("BRAND_VS_NONBRAND") EXCEPT !.brandTerms = << <<" ">> >>],
           [ArgsFor("DRILLDOWN_PAGE_TO_QUERIES") EXCEPT !.pageUrl = NoText],
           [ArgsFor("DRILLDOWN_PAGE_TO_QUERIES") EXCEPT !.pageUrl = Text(<<" ">>)],
           [ArgsFor("TOP_LOSERS_PAGES") EXCEPT !.pageUrl = Text(<<"https://x/b">>)],
           [ArgsFor("TOP_WINNERS_PAGES") EXCEPT !.rowLimit = Num(1)],
           [ArgsFor("BRAND_VS_NONBRAND") EXCEPT !.rowLimit = Num(1)],
           [ArgsFor("TOP_LOSERS_QUERIES") EXCEPT !.rowLimit = Num(1000)] }

\* The calls dispatched together in the requests of several calls: two of
\* these in either order, or the three of them.
ConcurrentArgs ==
    { ArgsFor("TOP_LOSERS_QUERIES"), ArgsFor("DRILLDOWN_PAGE_TO_QUERIES"),
      [ArgsFor("BRAND_VS_NONBRAND") EXCEPT !.brandTerms = <<>>] }

ConcurrentCalls ==
    [1..2 -> ConcurrentArgs]
    \cup { <<ArgsFor("TOP_LOSERS_QUERIES"),
             [ArgsFor("BRAND_VS_NONBRAND") EXCEPT !.brandTerms = <<>>],
             ArgsFor("DRILLDOWN_PAGE_TO_QUERIES")>> }

Requests ==
    { [message |-> m, calls |-> <<a>>, site |-> s] :
          m \in Messages, a \in SampleArgs, s \in Sites }
    \cup { [message |-> <<"why did clicks drop">>, calls |-> c, site |-> s] :
              c \in {<<>>} \cup ConcurrentCalls,
              s \in {"busy", "empty"} }
    \cup { [message |-> <<"why did clicks drop">>, site |-> "busy",
            calls |-> <<ArgsFor("BRAND_VS_NONBRAND"), ArgsFor("BRAND_VS_NONBRAND")>>],
           [message |-> <<"show", "top 500">>, site |-> "busy",
            calls |-> <<[ArgsFor("TOP_LOSERS_QUERIES") EXCEPT !.rowLimit = Num(1000)],
                        [ArgsFor("BRAND_VS_NONBRAND") EXCEPT !.rowLimit = Num(1000)]>>] }

InitRequest ==
    /\ request \in Requests
    /\ runs = [i \in DOMAIN request.calls |->
                  [stage |-> "totals", failed |-> {}, settled |-> Pending,
                   issued |-> Issue([f \in AllFetches |-> 0], "totals")]]
    /\ response = None
    /\ failures = <<>>
    /\ current = None /\ previousRange = None
    /\ currRows = None /\ prevRows = None /\ merged = None
    /\ answer = None /\ markdown = None
    /\ v2Input = None /\ v2 = None
    /\ NormalizeParked
    /\ ChatParked
    /\ WebhookParked
    /\ OAuthParked

ArgsOf(i) == EffectiveArgs(request.message, request.calls[i])

\* The number of fetches of the request that have failed.
RECURSIVE SumCard(_)
SumCard(sets) == IF sets = <<>> THEN 0 ELSE Cardinality(Head(sets)) + SumCard(Tail(sets))
FailedFetches == SumCard([i \in DOMAIN runs |-> runs[i].failed])

\* Every fetch of the await that run i is at has resolved.
AwaitResolved(i) ==
    /\ runs[i].settled.state = "pending"
    /\ runs[i].failed = {}

\* The await that run i is at resolves and runIntent goes on to its next
\* await, issuing its fetches.
RunAwaitsNext(i) ==
    /\ AwaitResolved(i)
    /\ NextStage(ArgsOf(i), runs[i].stage) \notin {"throw", "done"}
    /\ LET next == NextStage(ArgsOf(i), runs[i].stage)
       IN  runs' = [runs EXCEPT ![i].stage = next, ![i].issued = Issue(@, next)]
    /\ UNCHANGED <<request, response, failures, rangeVars, mergeVars, renderVars, answerVars, normalizeVars,
                 chatVars, webhookVars, oauthVars>>

\* The totals have resolved and runIntent throws for a missing parameter; the
\* rejection reaches the catch block of POST.
RunThrows(i) ==
    /\ AwaitResolved(i)
    /\ NextStage(ArgsOf(i), runs[i].stage) = "throw"
    /\ LET err == InvalidParameters(ArgsOf(i))
       IN  /\ runs' = [runs EXCEPT ![i].stage = "done", ![i].settled = Rejected(err)]
           /\ response' = Catch(response, err)
           /\ failures' = IF FailedFetches = 0
                          THEN Append(failures, [call |-> i, fetch |-> "(none)", error |-> err])
                          ELSE failures
    /\ UNCHANGED <<request, rangeVars, mergeVars, renderVars, answerVars, normalizeVars,
                 chatVars, webhookVars, oauthVars>>

\* The last await resolves and runIntent returns its result.
RunReturns(i) ==
    /\ AwaitResolved(i)
    /\ NextStage(ArgsOf(i), runs[i].stage) = "done"
    /\ runs[i].stage # "done"
    /\ runs' = [runs EXCEPT
                  ![i].stage = "done",
                  ![i].settled = Resolved(runIntent(request.site, request.message, request.calls[i],
                                                    perCallCap(Len(request.calls))))]
    /\ UNCHANGED <<request, response, failures, rangeVars, mergeVars, renderVars, answerVars, normalizeVars,
                 chatVars, webhookVars, oauthVars>>

\* A fetch in flight fails. The await of a run that is still pending rejects,
\* runIntent rejects with it, and the rejection reaches the catch block of
\* POST; in a run that has rejected already the failure goes unnoticed.
FetchFails(i, fetch, reply) ==
    /\ fetch \in StageFetches(runs[i].stage) \ runs[i].failed
    /\ FailedFetches < MaxFailures
    /\ LET err == callInternalGscQuery(reply)
       IN  /\ runs' = [runs EXCEPT ![i].failed = @ \cup {fetch},
                                   ![i].settled = Settle(@, Rejected(err))]
           /\ response' = IF runs[i].settled.state = "pending"
                          THEN Catch(response, err) ELSE response
           /\ failures' = IF FailedFetches = 0
                          THEN Append(failures, [call |-> i, fetch |-> fetch, error |-> err])
                          ELSE failures
    /\ UNCHANGED <<request, rangeVars, mergeVars, renderVars, answerVars, normalizeVars,
                 chatVars, webhookVars, oauthVars>>

\* Every runIntent has resolved: Promise.all resolves and POST answers.
Respond ==
    /\ response = None
    /\ \A i \in DOMAIN runs : runs[i].settled.state = "resolved"
    /\ response' = AnswerResponse([i \in DOMAIN runs |-> runs[i].settled.value])
    /\ UNCHANGED <<request, runs, failures, rangeVars, mergeVars, renderVars, answerVars, normalizeVars,
                 chatVars, webhookVars, oauthVars>>

NextRequest ==
    \/ \E i \in DOMAIN runs : RunAwaitsNext(i)
    \/ \E i \in DOMAIN runs : RunThrows(i)
    \/ \E i \in DOMAIN runs : RunReturns(i)
    \/ \E i \in DOMAIN runs : \E fetch \in AllFetches : \E reply \in FailedReplies :
          FetchFails(i, fetch, reply)
    \/ Respond

SpecRequest == InitRequest /\ [][NextRequest]_vars

\* The totals the totals fetches of run i return from the site: the
\* page-filtered ones for a drilldown, the site-wide ones otherwise.
FetchedTotals(i) ==
    LET args == ArgsOf(i)
        drill == args.intent = "DRILLDOWN_PAGE_TO_QUERIES"
        Of(range) == queryTotals(Upstream(request.site,
                        [range |-> range, dimensions |-> <<>>, rowLimit |-> 1,
                         filter |-> IF drill THEN "page" ELSE "none"]))
    IN  [current |-> Of("current"), previous |-> Of("previous")]

\* C3: for each of the ten intents the result runIntent returns has kind
\* empty exactly when its item collection is empty after merging and
\* filtering (for brand_vs_nonbrand: both top query lists); when every fetch
\* returns zero rows the kind is empty and the collection is empty; and the
\* totals of the result are those of the totals fetches.
C3_EmptyIffNoItems ==
    \A i \in DOMAIN runs :
        runs[i].settled.state = "resolved" =>
            LET r == runs[i].settled.value
            IN  /\ (r.kind = "empty") <=> (ItemsIn(r) = 0)
                /\ request.site = "empty" => (r.kind = "empty" /\ ItemsIn(r) = 0)
                /\ r.totals = FetchedTotals(i)

\* The first fetch of the request that failed: the failures are recorded up
\* to it.
FirstFailedFetch == failures[Len(failures)]

\* C9: once a fetch of any dispatched intent has failed, the request has
\* failed: the response is an error, not an answer built from the other
\* intents' results; it carries the message of the first fetch that failed;
\* and no fetch has been issued twice.
C9_FirstFetchFailure ==
    FailedFetches > 0 =>
        /\ response # None
        /\ response.type = "error"
        /\ response.error = FirstFailedFetch.error.message
        /\ \A i \in DOMAIN runs : \A f \in AllFetches : runs[i].issued[f] <= 1

LacksRequiredParameter(i) == NextStage(ArgsOf(i), "totals") = "throw"

\* C11: a BRAND_VS_NONBRAND run with no brand term left after trimming, or a
\* DRILLDOWN_PAGE_TO_QUERIES run whose pageUrl is empty after trimming, has
\* issued no totals fetch and no row fetch, and when it has failed it has
\* failed with the invalid-parameter error of its intent.
C11_ValidatedBeforeDispatch ==
    \A i \in DOMAIN runs :
        LacksRequiredParameter(i) =>
            /\ \A f \in AllFetches : runs[i].issued[f] = 0
            /\ runs[i].settled.state = "rejected" =>
                   runs[i].settled.value = InvalidParameters(ArgsOf(i))

(***************************************************************************)
(* The row normalizer on its own (src/lib/stripeApi.ts 275-294)            *)
(***************************************************************************)
\* Raw rows of every shape: keys missing, empty, without a string, with an
\* empty string, with an entry that is not a string, of two dimensions;
\* numbers absent, negative, zero and positive; ctr as a decimal (0.5, 1),
\* as a percentage (50, 100) and above 100 (150), in units of 1/10000.
RawKeys ==
    { [array |-> FALSE, list |-> <<>>] }
    \cup { [array |-> TRUE, list |-> k] :
              k \in { <<>>, <<NotAString>>, <<"">>, <<"shoes">>,
                      <<"shoes", NotAString>>, <<"shoes", "/a">> } }
RawClicks == {NotANumber, Num(-5), Num(0), Num(100)}
RawImpressions == {NotANumber, Num(-1), Num(1000)}
RawCtrs ==
    {NotANumber, Num(-5000), Num(0), Num(5000), Num(CtrOne), Num(50 * CtrOne),
     Num(100 * CtrOne), Num(150 * CtrOne)}
RawPositions == {NotANumber, Num(35)}

RawInputs ==
    { [keys |-> k, clicks |-> c, impressions |-> m, ctr |-> t, position |-> p] :
          k \in RawKeys, c \in RawClicks, m \in RawImpressions, t \in RawCtrs,
          p \in RawPositions }

\* What a call returned: the list of none (undefined) or one row.
Returned(rows) == [returned |-> rows]

\* A returned row handed to normalizeGscRow as its raw argument.
AsRaw(row) ==
    RawRow(row.keys, Num(row.clicks), Num(row.impressions), Num(row.ctr), Num(row.position))

InitNormalize ==
    /\ rawInput \in RawInputs
    /\ normalized = None
    /\ renormalized = None
    /\ current = None /\ previousRange = None
    /\ currRows = None /\ prevRows = None /\ merged = None
    /\ answer = None /\ markdown = None
    /\ v2Input = None /\ v2 = None
    /\ RequestParked
    /\ ChatParked
    /\ WebhookParked
    /\ OAuthParked

\* normalizeGscRow(raw)
NormalizeRow ==
    /\ normalized = None
    /\ normalized' = Returned(normalizeGscRow(rawInput))
    /\ UNCHANGED <<rawInput, renormalized, rangeVars, mergeVars, renderVars, answerVars, requestVars,
                 chatVars, webhookVars, oauthVars>>

\* normalizeGscRow(n) for the row n the first call returned
NormalizeAgain ==
    /\ normalized # None
    /\ renormalized = None
    /\ Len(normalized.returned) = 1
    /\ renormalized' = Returned(normalizeGscRow(AsRaw(normalized.returned[1])))
    /\ UNCHANGED <<rawInput, normalized, rangeVars, mergeVars, renderVars, answerVars, requestVars,
                 chatVars, webhookVars, oauthVars>>

NextNormalize == NormalizeRow \/ NormalizeAgain

SpecNormalize == InitNormalize /\ [][NextNormalize]_vars

\* C12: normalizing the row that normalizeGscRow returned returns a row
\* equal to it in keys, clicks, impressions, ctr and position, whatever the
\* numbers of the raw row, ctr above 100 included.
C12_Idempotent ==
    renormalized # None => renormalized = normalized

\* The MetricRow of the data model: at least one key, every key a string,
\* clicks and impressions not negative, ctr a decimal from 0 to 1.
ValidMetricRow(row) ==
    /\ Len(row.keys) >= 1
    /\ \A i \in DOMAIN row.keys : row.keys[i] # NotAString
    /\ row.clicks >= 0
    /\ row.impressions >= 0
    /\ row.ctr >= 0 /\ row.ctr <= CtrOne

\* C13: every row normalizeGscRow returns is a valid MetricRow; a raw row
\* that cannot be made one is answered with no row.
C13_ValidMetricRow ==
    normalized # None =>
        \A i \in DOMAIN normalized.returned : ValidMetricRow(normalized.returned[i])

\* The number of calls dispatched for the request.
CallCount == Len(request.calls)

\* What an item is sorted by: the DeltaRow of a delta item, the item itself
\* for a cannibalization candidate.
SortKey(intent, item) ==
    IF intent = "CANNIBALIZATION_QUERIES" THEN item ELSE item.metrics

\* Every item that run i has for its intent before the cut to rowLimit: the
\* rows fetched with the run's row limit, merged, filtered and sorted.
CandidatesOf(i) ==
    LET args == ArgsOf(i)
        rowLimit == RowLimitOf(request.message, request.calls[i], perCallCap(CallCount))
        curr == queryRows(Upstream(request.site, Payload(args, rowLimit, "rowsCurrent")))
        prv == queryRows(Upstream(request.site, Payload(args, rowLimit, "rowsPrevious")))
    IN  IntentItems(args.intent, curr, prv, Len(curr) + Len(prv))

\* The items are in the sort order of the intent.
InSortOrder(intent, items) ==
    \A j, k \in DOMAIN items :
        j < k => Compare(intent, SortKey(intent, items[j]), SortKey(intent, items[k])) <= 0

\* C14: the row limit of every result is a whole number of 1 or more; the
\* result holds no more items than its row limit, and each top query list of
\* a brand_vs_nonbrand result no more than min(rowLimit, 250), although the
\* merge of the two periods can hold up to twice as many keys; the items
\* kept are the first rowLimit of the intent's items in its sort order.
C14_ItemsWithinRowLimit ==
    \A i \in DOMAIN runs :
        runs[i].settled.state = "resolved" =>
            LET r == runs[i].settled.value
            IN  /\ r.rowLimit \in Nat /\ r.rowLimit >= 1
                /\ IF IsArray(r.items)
                   THEN /\ Len(r.items.list) <= r.rowLimit
                        /\ InSortOrder(r.intent, CandidatesOf(i))
                        /\ r.items.list =
                              SubSeq(CandidatesOf(i), 1, Min(r.rowLimit, Len(CandidatesOf(i))))
                   ELSE /\ Len(r.items.brand.topQueries) <= Min(r.rowLimit, BrandTopLimit)
                        /\ Len(r.items.nonBrand.topQueries) <= Min(r.rowLimit, BrandTopLimit)

\* A page list of row limit 1 whose two periods name two pages, /b and /a:
\* the merge holds twice the row limit, and the result keeps /b, the first
\* in sort order.
C14_Witness ==
    \E i \in DOMAIN runs :
        /\ runs[i].settled.state = "resolved"
        /\ runs[i].settled.value.rowLimit = 1
        /\ IsArray(runs[i].settled.value.items)
        /\ Len(CandidatesOf(i)) = 2
        /\ Len(runs[i].settled.value.items.list) = 1
        /\ runs[i].settled.value.items.list[1].page = "/b"

\* The most items a result of the given row limit can hold: the row limit,
\* or two top query lists of min(rowLimit, 250) each.
MostItems(r) ==
    IF r.intent = "BRAND_VS_NONBRAND" THEN 2 * Min(r.rowLimit, BrandTopLimit) ELSE r.rowLimit

RECURSIVE Total(_)
Total(numbers) == IF numbers = <<>> THEN 0 ELSE Head(numbers) + Total(Tail(numbers))

\* C15: with n calls dispatched for the request (1 to 3), the row limit of
\* every result is at least 1 and at most floor(1000 / (2n)), whatever row
\* limit was requested; the results of an answer hold no more than 1000
\* items together, and could not hold more with their row limits.
C15_RowBudget ==
    /\ \A i \in DOMAIN runs :
          runs[i].settled.state = "resolved" =>
              /\ CallCount \in 1..3
              /\ runs[i].settled.value.rowLimit >= 1
              /\ runs[i].settled.value.rowLimit <= RowBudget \div (2 * CallCount)
              /\ ItemsIn(runs[i].settled.value) <= MostItems(runs[i].settled.value)
    /\ (response # None /\ response.type = "answer") =>
          /\ Total([i \in DOMAIN response.data |-> ItemsIn(response.data[i])]) <= RowBudget
          /\ Total([i \in DOMAIN response.data |-> MostItems(response.data[i])]) <= RowBudget

\* An answer to two calls that each asked for 1000 rows, in a message that
\* asks for more rows: each result has the row limit 250 = floor(1000 / 4).
C15_Witness ==
    /\ response # None /\ response.type = "answer"
    /\ CallCount = 2
    /\ \A i \in DOMAIN response.data :
          /\ request.calls[i].rowLimit = Num(1000)
          /\ clampRowLimit(request.message, request.calls[i].rowLimit) = 1000
          /\ response.data[i].rowLimit = 250

\* C19: a call with a pageUrl argument, or without one in a request whose
\* message holds an http(s) URL, is dispatched as DRILLDOWN_PAGE_TO_QUERIES
\* of that URL (the argument, else the first URL of the message), whatever
\* intent was asked for: it fetches the page's totals and its result is the
\* drilldown of that page. A call with neither is dispatched as asked.
C19_UrlForcesDrilldown ==
    \A i \in DOMAIN runs :
        LET asked == request.calls[i]
            urls == {k \in DOMAIN request.message : request.message[k] \in UrlWords}
            first == CHOOSE k \in urls : \A j \in 1..(k - 1) : j \notin urls
            url == IF asked.pageUrl.given THEN asked.pageUrl.chars
                   ELSE <<request.message[first]>>
            resolved == runs[i].settled.state = "resolved"
        IN  IF asked.pageUrl.given \/ urls # {}
            THEN /\ ArgsOf(i).intent = "DRILLDOWN_PAGE_TO_QUERIES"
                 /\ ArgsOf(i).pageUrl = Text(url)
                 /\ runs[i].issued["rowsCurrent"] > 0 => runs[i].issued["pageTotalsCurrent"] > 0
                 /\ resolved =>
                       /\ runs[i].settled.value.intent = "DRILLDOWN_PAGE_TO_QUERIES"
                       /\ runs[i].settled.value.context = [pageUrl |-> Joined(Trim(url))]
            ELSE /\ ArgsOf(i) = asked
                 /\ runs[i].issued["pageTotalsCurrent"] = 0
                 /\ resolved => runs[i].settled.value.intent = asked.intent

\* A call for TOP_LOSERS_QUERIES without a pageUrl, in a request whose
\* message names https://x/b and then https://x/a, has returned the
\* drilldown of https://x/b.
C19_Witness ==
    \E i \in DOMAIN runs :
        /\ request.calls[i].intent = "TOP_LOSERS_QUERIES"
        /\ ~request.calls[i].pageUrl.given
        /\ request.message = <<"compare", "https://x/b", "with", "https://x/a">>
        /\ runs[i].settled.state = "resolved"
        /\ runs[i].settled.value.intent = "DRILLDOWN_PAGE_TO_QUERIES"
        /\ runs[i].settled.value.context = [pageUrl |-> "https://x/b"]

(***************************************************************************)
(* POST /api/chat: entitlements, the paywall and the tool calls            *)
(* (src/app/api/chat/route.ts 717-906, src/lib/entitlements.ts,            *)
(* src/unnamed/part_001 117-166)                                           *)
(*                                                                         *)
(* One user sends requests that run concurrently; each request is at one   *)
(* of its awaits, and each database statement is one step. The dispatch of *)
(* the tool calls is followed in SpecRequest; here it resolves or rejects. *)
(***************************************************************************)
FreeLimit == 3
MaxToolCalls == 3

\* At most this many requests of the user are followed.
MaxChats == 2

\* The message of the request body, as characters: a question between
\* blanks.
ChatMessages == { <<" ", "why did clicks drop", " ">> }

\* A tool call of the classifier's reply: the tool it names, and whether
\* ToolArgsSchema accepts its arguments.
ToolCall(name, valid) == [name |-> name, valid |-> valid]
GscQuery == ToolCall("gsc_query", TRUE)
BadArguments == ToolCall("gsc_query", FALSE)
OtherTool == ToolCall("other_tool", TRUE)

\* The replies of the classifier: no call, one, three and four valid calls,
\* and replies with a call of another tool or with arguments the schema
\* rejects.
ToolCallLists ==
    { <<>>, <<GscQuery>>, <<GscQuery, GscQuery, GscQuery>>,
      <<GscQuery, GscQuery, GscQuery, GscQuery>>,
      <<GscQuery, OtherTool>>, <<GscQuery, GscQuery, BadArguments>> }

ErrorReply(status, error) == [type |-> "error", status |-> status, error |-> error]

\* The mutant lets any number of tool calls through.
ValidateToolCalls_AnyNumber(toolCallsRaw) ==
    IF \E k \in DOMAIN toolCallsRaw : toolCallsRaw[k].name # "gsc_query"
    THEN ErrorReply(500, "Model called an unsupported tool.")
    ELSE IF \E k \in DOMAIN toolCallsRaw : ~toolCallsRaw[k].valid
    THEN ErrorReply(500, "Model produced invalid tool arguments.")
    ELSE None

\* route.ts 821-847: the error the tool calls are answered with, None when
\* they are dispatched
ValidateToolCalls(toolCallsRaw) ==
    IF \E k \in DOMAIN toolCallsRaw : toolCallsRaw[k].name # "gsc_query"
    THEN ErrorReply(500, "Model called an unsupported tool.")
    ELSE IF Len(toolCallsRaw) > MaxToolCalls
    THEN ErrorReply(400, "Model requested too many tool calls (max 3).")
    ELSE IF \E k \in DOMAIN toolCallsRaw : ~toolCallsRaw[k].valid
    THEN ErrorReply(500, "Model produced invalid tool arguments.")
    ELSE None

\* The user's row of table subscriptions, if there is one: its status, and
\* its current_period_end as it stands to Date.now(): null, past or future.
NoSubscription == [status |-> "(no row)", currentPeriodEnd |-> "null"]
Subscription(status, currentPeriodEnd) ==
    [status |-> status, currentPeriodEnd |-> currentPeriodEnd]

\* isSubscriptionActive (entitlements.ts 16-32)
isSubscriptionActive(subscription) ==
    IF subscription.status \in {"active", "trialing", "past_due"}
    THEN subscription.currentPeriodEnd \in {"null", "future"}
    ELSE IF subscription.status = "canceled"
    THEN subscription.currentPeriodEnd = "future"
    ELSE FALSE

\* The mutant gives an admin no more than the subscription gives.
getUserEntitlements_AdminAsUser ==
    [isPro |-> account.subscription # NoSubscription
                  /\ isSubscriptionActive(account.subscription),
     questionsUsed |-> usage.questions_used,
     pendingQuestion |-> usage.pending_question]

\* getUserEntitlements (entitlements.ts 34-58), as far as POST reads it
getUserEntitlements ==
    [isPro |-> IF account.role = "admin" THEN TRUE
               ELSE IF account.subscription # NoSubscription
               THEN isSubscriptionActive(account.subscription)
               ELSE FALSE,
     questionsUsed |-> usage.questions_used,
     pendingQuestion |-> usage.pending_question]

\* The users followed: a free user, an admin, a subscriber, and users whose
\* canceled subscription has or has not run out.
Accounts ==
    { [role |-> "user", subscription |-> NoSubscription],
      [role |-> "admin", subscription |-> NoSubscription],
      [role |-> "user", subscription |-> Subscription("active", "null")],
      [role |-> "user", subscription |-> Subscription("canceled", "future")],
      [role |-> "user", subscription |-> Subscription("canceled", "past")] }

\* The mutant never closes the paywall.
freeLimitReached_Never(entBefore) == FALSE

\* route.ts 746
freeLimitReached(entBefore) == ~entBefore.isPro /\ entBefore.questionsUsed >= FreeLimit

\* A request that has not arrived yet.
Idle ==
    [pc |-> "idle", message |-> <<>>, entBefore |-> None, toolCalls |-> <<>>,
     classified |-> FALSE, dispatched |-> 0, fetches |-> 0, wrote |-> {},
     response |-> None]

InitChat ==
    /\ account \in Accounts
    /\ usage \in { [questions_used |-> q, pending_question |-> p] :
                      q \in {0, FreeLimit - 1, FreeLimit},
                      p \in {NoText, Text(<<"why did clicks drop">>)} }
    /\ usage.pending_question.given => usage.questions_used = FreeLimit
    /\ answered = usage.questions_used
    /\ chats = [i \in 1..MaxChats |-> Idle]
    /\ current = None /\ previousRange = None
    /\ currRows = None /\ prevRows = None /\ merged = None
    /\ answer = None /\ markdown = None
    /\ v2Input = None /\ v2 = None
    /\ RequestParked
    /\ NormalizeParked
    /\ WebhookParked
    /\ OAuthParked

ChatUnchanged ==
    UNCHANGED <<rangeVars, mergeVars, renderVars, answerVars, requestVars, normalizeVars,
                webhookVars, oauthVars>>

\* A request of the user arrives with a valid body; the requests are
\* numbered in the order they arrive.
Arrive(i, message) ==
    /\ chats[i].pc = "idle"
    /\ \A j \in 1..(i - 1) : chats[j].pc # "idle"
    /\ chats' = [chats EXCEPT ![i].pc = "entitlements", ![i].message = message]
    /\ UNCHANGED <<usage, account, answered>>
    /\ ChatUnchanged

\* route.ts 727-740: a request whose body is not JSON or not a BodySchema is
\* answered 400.
InvalidBody(i) ==
    /\ chats[i].pc = "idle"
    /\ \A j \in 1..(i - 1) : chats[j].pc # "idle"
    /\ chats' = [chats EXCEPT ![i].pc = "done",
                              ![i].response = ErrorReply(400, "Invalid request body.")]
    /\ UNCHANGED <<usage, account, answered>>
    /\ ChatUnchanged

\* route.ts 745-746: entBefore is read, and the free limit decides
GetEntitlementsBefore(i) ==
    /\ chats[i].pc = "entitlements"
    /\ chats' = [chats EXCEPT
                   ![i].entBefore = getUserEntitlements,
                   ![i].pc = IF freeLimitReached(getUserEntitlements)
                             THEN "paywall" ELSE "classify"]
    /\ UNCHANGED <<usage, account, answered>>
    /\ ChatUnchanged

\* route.ts 747-759: setPendingQuestion(userId, messageTrimmed), and the
\* paywall response
SetPendingQuestion(i) ==
    /\ chats[i].pc = "paywall"
    /\ usage' = [usage EXCEPT !.pending_question = Text(Trim(chats[i].message))]
    /\ chats' = [chats EXCEPT
                   ![i].pc = "done",
                   ![i].wrote = @ \cup {"setPendingQuestion"},
                   ![i].response = [type |-> "paywall", status |-> 200,
                                    error |-> "Free limit reached"]]
    /\ UNCHANGED <<account, answered>>
    /\ ChatUnchanged

\* route.ts 762-866: the classifier replies with its tool calls; they are
\* checked, and dispatched when there are one to three valid ones: every
\* runIntent issues its two totals fetches at once. Without a tool call the
\* answer is built from no data.
Classify(i, toolCallsRaw) ==
    /\ chats[i].pc = "classify"
    /\ LET rejected == ValidateToolCalls(toolCallsRaw)
       IN  chats' = [chats EXCEPT
                       ![i].classified = TRUE,
                       ![i].toolCalls = toolCallsRaw,
                       ![i].pc = IF rejected # None THEN "done"
                                 ELSE IF Len(toolCallsRaw) = 0 THEN "increment"
                                 ELSE "dispatch",
                       ![i].dispatched = IF rejected # None THEN 0 ELSE Len(toolCallsRaw),
                       ![i].fetches = IF rejected # None THEN 0 ELSE 2 * Len(toolCallsRaw),
                       ![i].response = rejected]
    /\ UNCHANGED <<usage, account, answered>>
    /\ ChatUnchanged

\* The call of the classifier throws: the outer catch answers 500
\* (route.ts 901-905).
ClassifierFails(i) ==
    /\ chats[i].pc = "classify"
    /\ chats' = [chats EXCEPT ![i].classified = TRUE, ![i].pc = "done",
                              ![i].response = ErrorReply(500, "classifier failed")]
    /\ UNCHANGED <<usage, account, answered>>
    /\ ChatUnchanged

\* Every runIntent resolves (route.ts 852-857); the answer is built and
\* rendered without another await (869-882).
DispatchResolves(i) ==
    /\ chats[i].pc = "dispatch"
    /\ chats' = [chats EXCEPT ![i].pc = "increment"]
    /\ UNCHANGED <<usage, account, answered>>
    /\ ChatUnchanged

\* A runIntent rejects (route.ts 858-866).
DispatchRejects(i, status) ==
    /\ chats[i].pc = "dispatch"
    /\ chats' = [chats EXCEPT ![i].pc = "done",
                              ![i].response = ErrorReply(status, "GSC query failed")]
    /\ UNCHANGED <<usage, account, answered>>
    /\ ChatUnchanged

\* route.ts 884-886 and incrementQuestionsUsed (part_001 140-148): one UPDATE
\* that counts up while questions_used < 3, for a user who was not Pro.
IncrementQuestionsUsed(i) ==
    /\ chats[i].pc = "increment"
    /\ IF ~chats[i].entBefore.isPro
       THEN /\ usage' = IF usage.questions_used < FreeLimit
                        THEN [usage EXCEPT !.questions_used = @ + 1]
                        ELSE usage
            /\ chats' = [chats EXCEPT
                           ![i].pc = "clear",
                           ![i].wrote = IF usage.questions_used < FreeLimit
                                        THEN @ \cup {"incrementQuestionsUsed"} ELSE @]
       ELSE /\ usage' = usage
            /\ chats' = [chats EXCEPT ![i].pc = "clear"]
    /\ UNCHANGED <<account, answered>>
    /\ ChatUnchanged

\* route.ts 888-890 and clearPendingQuestion (part_001 160-166)
ClearPendingQuestion(i) ==
    /\ chats[i].pc = "clear"
    /\ LET pending == chats[i].entBefore.pendingQuestion
           clears == /\ pending.given /\ Len(pending.chars) > 0
                     /\ Trim(pending.chars) = Trim(chats[i].message)
       IN  /\ usage' = IF clears THEN [usage EXCEPT !.pending_question = NoText] ELSE usage
           /\ chats' = [chats EXCEPT ![i].pc = "respond",
                                     ![i].wrote = IF clears THEN @ \cup {"clearPendingQuestion"}
                                                  ELSE @]
    /\ UNCHANGED <<account, answered>>
    /\ ChatUnchanged

\* route.ts 892-900: entAfter is read and the answer is delivered
RespondWithAnswer(i) ==
    /\ chats[i].pc = "respond"
    /\ chats' = [chats EXCEPT ![i].pc = "done",
                              ![i].response = [type |-> "answer", status |-> 200,
                                               error |-> "", entitlements |-> getUserEntitlements]]
    /\ answered' = answered + 1
    /\ UNCHANGED <<usage, account>>
    /\ ChatUnchanged

\* One of the statements that follow the answer throws
\* (incrementQuestionsUsed, clearPendingQuestion or the read of entAfter,
\* route.ts 884-892): the outer catch answers 500 (901-905).
LaterStatementFails(i) ==
    /\ chats[i].pc \in {"increment", "clear", "respond"}
    /\ chats' = [chats EXCEPT ![i].pc = "done",
                              ![i].response = ErrorReply(500, "database statement failed")]
    /\ UNCHANGED <<usage, account, answered>>
    /\ ChatUnchanged

NextChat ==
    \/ \E i \in 1..MaxChats : InvalidBody(i)
    \/ \E i \in 1..MaxChats : LaterStatementFails(i)
    \/ \E i \in 1..MaxChats : \E message \in ChatMessages : Arrive(i, message)
    \/ \E i \in 1..MaxChats : GetEntitlementsBefore(i)
    \/ \E i \in 1..MaxChats : SetPendingQuestion(i)
    \/ \E i \in 1..MaxChats : \E toolCallsRaw \in ToolCallLists : Classify(i, toolCallsRaw)
    \/ \E i \in 1..MaxChats : ClassifierFails(i)
    \/ \E i \in 1..MaxChats : DispatchResolves(i)
    \/ \E i \in 1..MaxChats : \E status \in {401, 500} : DispatchRejects(i, status)
    \/ \E i \in 1..MaxChats : IncrementQuestionsUsed(i)
    \/ \E i \in 1..MaxChats : ClearPendingQuestion(i)
    \/ \E i \in 1..MaxChats : RespondWithAnswer(i)

SpecChat == InitChat /\ [][NextChat]_vars

\* C16: the answers delivered to a user who is neither Pro nor admin never
\* number more than 3, however the user's requests interleave.
C16_AtMostThreeAnswers ==
    ~getUserEntitlements.isPro => answered <= FreeLimit

\* A request that read entitlements of a user who is not Pro with
\* questions_used >= 3 is at the paywall or answered with it; it has not
\* called the classifier, has issued no fetch and has written nothing but
\* pending_question. No other request gets the paywall.
PaywallOnly ==
    \A i \in 1..MaxChats :
        LET c == chats[i]
        IN  /\ (c.entBefore # None /\ ~c.entBefore.isPro
                    /\ c.entBefore.questionsUsed >= FreeLimit) =>
                  /\ c.pc \in {"paywall", "done"}
                  /\ ~c.classified
                  /\ c.toolCalls = <<>>
                  /\ c.fetches = 0 /\ c.dispatched = 0
                  /\ "incrementQuestionsUsed" \notin c.wrote
                  /\ c.pc = "done" =>
                        /\ c.response.type = "paywall"
                        /\ c.wrote = {"setPendingQuestion"}
            /\ (c.response # None /\ c.response.type = "paywall") =>
                  /\ ~c.entBefore.isPro
                  /\ c.entBefore.questionsUsed >= FreeLimit

\* The step that answers with the paywall stores the trimmed message as
\* pending_question and leaves questions_used as it was.
PaywallStores ==
    \A i \in 1..MaxChats :
        (chats[i].pc = "paywall" /\ chats'[i].pc = "done") =>
            /\ usage'.pending_question = Text(<<"why did clicks drop">>)
            /\ usage'.pending_question = Text(Trim(chats[i].message))
            /\ usage'.questions_used = usage.questions_used

Undispatchable(toolCallsRaw) ==
    \/ Len(toolCallsRaw) > 3
    \/ \E k \in DOMAIN toolCallsRaw : toolCallsRaw[k] # GscQuery

\* A request dispatches none to three intents; with tool calls that cannot
\* be dispatched it is answered with an error, has dispatched no intent, has
\* issued no fetch and has written nothing.
DispatchesUpToThree ==
    \A i \in 1..MaxChats :
        LET c == chats[i]
        IN  c.classified =>
                /\ c.dispatched \in 0..3
                /\ IF Undispatchable(c.toolCalls)
                   THEN /\ c.pc = "done"
                        /\ c.response.type = "error"
                        /\ c.dispatched = 0
                        /\ c.fetches = 0
                        /\ c.wrote = {}
                   ELSE /\ c.dispatched = Len(c.toolCalls)
                        /\ c.fetches >= 2 * c.dispatched

\* The step that rejects the tool calls leaves the user's usage row as it
\* was.
RejectionKeepsUsage ==
    \A i \in 1..MaxChats :
        (chats[i].pc = "classify" /\ chats'[i].pc = "done") => usage' = usage

\* C20: one request dispatches between 0 and 3 intents; when more than three
\* tool calls are requested, or a call is not a valid gsc_query call, the
\* request is answered with an error before any intent is dispatched: no GSC
\* fetch is issued and questions_used is not changed.
C20_UpToThreeIntents == []DispatchesUpToThree /\ [][RejectionKeepsUsage]_vars

\* A free user's request whose classifier asked for four gsc_query calls has
\* been answered 400 without a fetch, and questions_used is where it was.
C20_Witness ==
    \E i \in 1..MaxChats :
        /\ Len(chats[i].toolCalls) = 4
        /\ \A k \in DOMAIN chats[i].toolCalls : chats[i].toolCalls[k] = GscQuery
        /\ chats[i].response # None
        /\ chats[i].response.status = 400
        /\ chats[i].fetches = 0
        /\ ~getUserEntitlements.isPro
        /\ usage.questions_used = chats[i].entBefore.questionsUsed

(***************************************************************************)
(* POST /api/stripe/webhook (src/app/api/stripe/webhook/route.ts 29-107,   *)
(* src/unnamed/part_001 178-233)                                           *)
(*                                                                         *)
(* Stripe delivers events, some of them more than once and at the same     *)
(* time; each delivery is at one of its awaits, and each database          *)
(* statement is one step.                                                  *)
(***************************************************************************)
\* At most this many deliveries are followed.
MaxDeliveries == 2

\* asString: a text that is absent, not a string or blank is undefined.
Absent == ""

\* The events Stripe sends: a completed checkout that names the customer
\* and the user, a subscription that names its user in the metadata, one
\* that does not, and an event of a type the route has no handler for.
StripeEvent(id, type, customer, userId, status) ==
    [id |-> id, type |-> type, customer |-> customer, userId |-> userId, status |-> status]

StripeEvents ==
    { StripeEvent("evt_1", "checkout.session.completed", "cus_1", "user_1", Absent),
      StripeEvent("evt_2", "customer.subscription.created", "cus_1", Absent, "active"),
      StripeEvent("evt_3", "customer.subscription.deleted", "cus_1", "user_1", "canceled"),
      StripeEvent("evt_4", "invoice.paid", "cus_1", Absent, Absent) }

EventIds == {e.id : e \in StripeEvents}

\* The event of the requests that come with a missing or a wrong signature:
\* a subscription for user_1 that Stripe never sent.
ForgedEvents ==
    { StripeEvent("evt_5", "customer.subscription.updated", "cus_1", "user_1", "active") }

SubscriptionTypes ==
    {"customer.subscription.created", "customer.subscription.updated",
     "customer.subscription.deleted"}

\* STRIPE_WEBHOOK_SECRET, and a secret that is not ours.
WebhookSecret == "whsec_ours"
OtherSecret == "whsec_other"

\* The payload of a request is the text of its event, here the event id.
PayloadOf(event) == event.id

\* createHmac("sha256", secret).update(signedPayload).digest("hex")
\* (stripeApi.ts 157-160): two digests are equal only when the secret, the
\* timestamp and the payload are.
Hmac(secret, timestamp, payload) == <<secret, timestamp, payload>>

\* The parts of a Stripe-Signature header, "t=...,v1=...,v0=...".
Part(name, value) == [name |-> name, value |-> value]

\* No Stripe-Signature header, or an empty one (route.ts 32-33).
MissingHeader == <<>>

\* The headers Stripe sends for a payload: one v1 signature of the
\* timestamp and the payload under our secret, alone or after a v1 of
\* another secret.
SignedHeaders(payload) ==
    { <<Part("t", <<"t1">>), Part("v1", Hmac(WebhookSecret, "t1", payload))>>,
      <<Part("t", <<"t1">>), Part("v1", Hmac(OtherSecret, "t1", payload)),
        Part("v1", Hmac(WebhookSecret, "t1", payload))>> }

\* A header without a timestamp and one without a v1 signature.
MalformedHeaders(payload) ==
    { <<Part("v1", Hmac(WebhookSecret, "t1", payload))>>,
      <<Part("t", <<"t1">>), Part("v0", Hmac(WebhookSecret, "t1", payload))>> }

\* Headers whose v1 signature is the HMAC of another secret, of another
\* timestamp or of another payload.
MismatchedHeaders(payload) ==
    { <<Part("t", <<"t1">>), Part("v1", Hmac(OtherSecret, "t1", payload))>>,
      <<Part("t", <<"t2">>), Part("v1", Hmac(WebhookSecret, "t1", payload))>>,
      <<Part("t", <<"t1">>), Part("v1", Hmac(WebhookSecret, "t1", "evt_0"))>> }

SignatureHeaders(payload) ==
    {MissingHeader} \cup SignedHeaders(payload) \cup MalformedHeaders(payload)
        \cup MismatchedHeaders(payload)

\* The mutant accepts every header.
verifyStripeWebhookSignature_Unchecked(payload, signatureHeader, webhookSecret) == "ok"

\* verifyStripeWebhookSignature (stripeApi.ts 142-164): "ok", or the message
\* of the error it throws.
verifyStripeWebhookSignature(payload, signatureHeader, webhookSecret) ==
    LET tParts == SelectSeq(signatureHeader, LAMBDA p : p.name = "t")
        v1Parts == SelectSeq(signatureHeader, LAMBDA p : p.name = "v1")
    IN  IF tParts = <<>> \/ v1Parts = <<>>
        THEN "Invalid Stripe-Signature header."
        ELSE LET timestamp == tParts[1].value[1]
                 expected == Hmac(webhookSecret, timestamp, payload)
             IN  IF \E k \in 1..Len(v1Parts) : v1Parts[k].value = expected
                 THEN "ok"
                 ELSE "Invalid Stripe webhook signature."

\* The mutant processes every delivery.
markStripeEventProcessed_Always(eventId) == TRUE

\* markStripeEventProcessed (part_001 225-233): INSERT ... ON CONFLICT DO
\* NOTHING RETURNING event_id returns a row when the id was not recorded.
markStripeEventProcessed(eventId) == eventId \notin stripe_events

\* The await a handler starts with after the event is recorded (route.ts
\* 58-106), "done" when it has nothing to write.
HandlerOf(event) ==
    IF event.type = "checkout.session.completed"
    THEN (IF event.customer # Absent /\ event.userId # Absent
          THEN "upsertStripeCustomer" ELSE "done")
    ELSE IF event.type \in SubscriptionTypes
    THEN (IF event.customer = Absent \/ event.status = Absent THEN "done"
          ELSE IF event.userId # Absent THEN "upsertSubscription"
          ELSE "getUserIdByStripeCustomerId")
    ELSE "done"

Acknowledged == [status |-> 200, ok |-> TRUE, deduped |-> FALSE]
Deduped == [status |-> 200, ok |-> TRUE, deduped |-> TRUE]
Refused(status) == [status |-> status, ok |-> FALSE, deduped |-> FALSE]

\* A delivery that has not arrived yet.
NoDelivery ==
    [pc |-> "idle", event |-> StripeEvent(Absent, Absent, Absent, Absent, Absent),
     signatureHeader |-> MissingHeader, userId |-> Absent, writes |-> 0,
     response |-> None]

InitWebhook ==
    /\ stripe_events = {}
    /\ stripe_customers = [c \in {"cus_1"} |-> Absent]
    /\ subscriptions = [u \in {"user_1"} |-> Absent]
    /\ deliveries = [d \in 1..MaxDeliveries |-> NoDelivery]
    /\ current = None /\ previousRange = None
    /\ currRows = None /\ prevRows = None /\ merged = None
    /\ answer = None /\ markdown = None
    /\ v2Input = None /\ v2 = None
    /\ RequestParked
    /\ NormalizeParked
    /\ ChatParked
    /\ OAuthParked

WebhookUnchanged ==
    UNCHANGED <<rangeVars, mergeVars, renderVars, answerVars, requestVars, normalizeVars,
                chatVars, oauthVars>>

\* route.ts 30-53: a request arrives whose signature is verified and whose
\* payload is a Stripe event; the deliveries are numbered in the order they
\* arrive.
Deliver(d, event, sig) ==
    /\ deliveries[d].pc = "idle"
    /\ \A j \in 1..(d - 1) : deliveries[j].pc # "idle"
    /\ sig # MissingHeader
    /\ verifyStripeWebhookSignature(PayloadOf(event), sig, WebhookSecret) = "ok"
    /\ deliveries' = [deliveries EXCEPT ![d].pc = "markStripeEventProcessed",
                                        ![d].event = event,
                                        ![d].signatureHeader = sig]
    /\ UNCHANGED <<stripe_events, stripe_customers, subscriptions>>
    /\ WebhookUnchanged

\* route.ts 32-44: a request without a Stripe-Signature header, or with one
\* that verifyStripeWebhookSignature throws on, is answered 400 before
\* its payload is parsed.
Refuse(d, event, sig) ==
    /\ deliveries[d].pc = "idle"
    /\ \A j \in 1..(d - 1) : deliveries[j].pc # "idle"
    /\ \/ sig = MissingHeader
       \/ verifyStripeWebhookSignature(PayloadOf(event), sig, WebhookSecret) # "ok"
    /\ deliveries' = [deliveries EXCEPT ![d].pc = "done",
                                        ![d].signatureHeader = sig,
                                        ![d].response = Refused(400)]
    /\ UNCHANGED <<stripe_events, stripe_customers, subscriptions>>
    /\ WebhookUnchanged

\* route.ts 46-53: a signed payload that is not JSON, or not a Stripe
\* event, is answered 400.
InvalidPayload(d) ==
    /\ deliveries[d].pc = "idle"
    /\ \A j \in 1..(d - 1) : deliveries[j].pc # "idle"
    /\ \E sig \in SignedHeaders("not an event") :
          /\ verifyStripeWebhookSignature("not an event", sig, WebhookSecret) = "ok"
          /\ deliveries' = [deliveries EXCEPT ![d].pc = "done",
                                              ![d].signatureHeader = sig,
                                              ![d].response = Refused(400)]
    /\ UNCHANGED <<stripe_events, stripe_customers, subscriptions>>
    /\ WebhookUnchanged

\* route.ts 55-56: the event id is recorded, or the delivery is answered as
\* deduped; a handler without anything to write answers at once.
MarkStripeEventProcessed(d) ==
    /\ deliveries[d].pc = "markStripeEventProcessed"
    /\ LET event == deliveries[d].event
           shouldProcess == markStripeEventProcessed(event.id)
       IN  /\ stripe_events' = stripe_events \cup {event.id}
           /\ deliveries' =
                 [deliveries EXCEPT
                    ![d].pc = IF shouldProcess THEN HandlerOf(event) ELSE "done",
                    ![d].userId = event.userId,
                    ![d].response = IF ~shouldProcess THEN Deduped
                                    ELSE IF HandlerOf(event) = "done" THEN Acknowledged
                                    ELSE None]
    /\ UNCHANGED <<stripe_customers, subscriptions>>
    /\ WebhookUnchanged

\* route.ts 66-69 and upsertStripeCustomer (part_001 178-185)
UpsertStripeCustomer(d) ==
    /\ deliveries[d].pc = "upsertStripeCustomer"
    /\ stripe_customers' =
          [stripe_customers EXCEPT ![deliveries[d].event.customer] = deliveries[d].userId]
    /\ deliveries' = [deliveries EXCEPT ![d].pc = "done", ![d].writes = @ + 1,
                                        ![d].response = Acknowledged]
    /\ UNCHANGED <<stripe_events, subscriptions>>
    /\ WebhookUnchanged

\* route.ts 93-95 and getUserIdByStripeCustomerId (part_001 215-223)
GetUserIdByStripeCustomerId(d) ==
    /\ deliveries[d].pc = "getUserIdByStripeCustomerId"
    /\ LET userId == stripe_customers[deliveries[d].event.customer]
       IN  deliveries' =
              [deliveries EXCEPT
                 ![d].userId = userId,
                 ![d].pc = IF userId = Absent THEN "done" ELSE "upsertSubscription",
                 ![d].response = IF userId = Absent THEN Acknowledged ELSE None]
    /\ UNCHANGED <<stripe_events, stripe_customers, subscriptions>>
    /\ WebhookUnchanged

\* route.ts 97-104 and upsertSubscription (part_001 197-213)
UpsertSubscription(d) ==
    /\ deliveries[d].pc = "upsertSubscription"
    /\ subscriptions' = [subscriptions EXCEPT ![deliveries[d].userId] = deliveries[d].event.status]
    /\ deliveries' = [deliveries EXCEPT ![d].pc = "done", ![d].writes = @ + 1,
                                        ![d].response = Acknowledged]
    /\ UNCHANGED <<stripe_events, stripe_customers>>
    /\ WebhookUnchanged

\* A statement of a handler throws: the route has no catch around its
\* handlers, and the delivery is answered 500.
HandlerFails(d) ==
    /\ deliveries[d].pc \in {"upsertStripeCustomer", "getUserIdByStripeCustomerId",
                            "upsertSubscription"}
    /\ deliveries' = [deliveries EXCEPT ![d].pc = "done", ![d].response = Refused(500)]
    /\ UNCHANGED <<stripe_events, stripe_customers, subscriptions>>
    /\ WebhookUnchanged

NextWebhook ==
    \/ \E d \in 1..MaxDeliveries : \E event \in StripeEvents :
          \E sig \in SignatureHeaders(PayloadOf(event)) : Deliver(d, event, sig)
    \/ \E d \in 1..MaxDeliveries : \E event \in ForgedEvents :
          \E sig \in SignatureHeaders(PayloadOf(event)) : Refuse(d, event, sig)
    \/ \E d \in 1..MaxDeliveries : InvalidPayload(d)
    \/ \E d \in 1..MaxDeliveries : MarkStripeEventProcessed(d)
    \/ \E d \in 1..MaxDeliveries : UpsertStripeCustomer(d)
    \/ \E d \in 1..MaxDeliveries : GetUserIdByStripeCustomerId(d)
    \/ \E d \in 1..MaxDeliveries : UpsertSubscription(d)
    \/ \E d \in 1..MaxDeliveries : HandlerFails(d)

SpecWebhook == InitWebhook /\ [][NextWebhook]_vars

\* The deliveries of an event id that were told to process it.
Processing(id) ==
    {d \in 1..MaxDeliveries :
        /\ deliveries[d].event.id = id
        /\ deliveries[d].pc \notin {"idle", "markStripeEventProcessed"}
        /\ (deliveries[d].response = None \/ ~deliveries[d].response.deduped)}

\* Of every event id at most one delivery is told to process it, the id is
\* recorded by then, the deliveries of the id have written at most once
\* together, and a delivery answered as deduped has written nothing.
EffectsAtMostOnce ==
    \A id \in EventIds :
        /\ Cardinality(Processing(id)) <= 1
        /\ Processing(id) # {} => id \in stripe_events
        /\ \A d \in 1..MaxDeliveries :
              deliveries[d].event.id = id =>
                  /\ deliveries[d].writes <= 1
                  /\ deliveries[d].writes = 1 => d \in Processing(id)
                  /\ (deliveries[d].response # None /\ deliveries[d].response.deduped) =>
                        deliveries[d].writes = 0

\* A delivery that reaches markStripeEventProcessed when its event id is
\* recorded is answered as deduped, and the step changes no table.
LaterDeliveryDeduped ==
    \A d \in 1..MaxDeliveries :
        (/\ deliveries[d].pc = "markStripeEventProcessed"
         /\ deliveries'[d].pc # "markStripeEventProcessed"
         /\ deliveries[d].event.id \in stripe_events) =>
            /\ deliveries'[d].pc = "done"
            /\ deliveries'[d].response = Deduped
            /\ UNCHANGED <<stripe_events, stripe_customers, subscriptions>>

\* C17: the webhook is idempotent per event id: however the deliveries of
\* one event id repeat and interleave, the writes of its handler (to
\* stripe_customers or subscriptions) are applied at most once, and every
\* later delivery of the id is acknowledged as deduped without a change to
\* what is stored.
C17_IdempotentPerEvent == []EffectsAtMostOnce /\ [][LaterDeliveryDeduped]_vars

\* Two deliveries of the completed checkout evt_1 have been answered: one
\* wrote the customer, the other was acknowledged as deduped and wrote
\* nothing.
C17_Witness ==
    \E d, e \in 1..MaxDeliveries :
        /\ deliveries[d].event.id = "evt_1" /\ deliveries[e].event.id = "evt_1"
        /\ deliveries[d].response = Acknowledged /\ deliveries[d].writes = 1
        /\ deliveries[e].response = Deduped /\ deliveries[e].writes = 0
        /\ stripe_customers["cus_1"] = "user_1"

\* The user is an admin, or has a subscription that is active (active,
\* trialing or past_due, its period not over) or canceled with its paid
\* period still running.
AdminOrPro ==
    \/ account.role = "admin"
    \/ /\ account.subscription.status \in {"active", "trialing", "past_due"}
       /\ account.subscription.currentPeriodEnd # "past"
    \/ /\ account.subscription.status = "canceled"
       /\ account.subscription.currentPeriodEnd = "future"

\* No request of an admin or Pro user is at the paywall or answered with
\* it, and none has stored a pending question or counted a question.
NeverPaywalled ==
    AdminOrPro =>
        \A i \in 1..MaxChats :
            /\ chats[i].pc # "paywall"
            /\ chats[i].response # None => chats[i].response.type # "paywall"
            /\ chats[i].wrote \subseteq {"clearPendingQuestion"}

\* No step of a request of an admin or Pro user changes questions_used or
\* stores a pending question.
UsageKept ==
    AdminOrPro =>
        /\ usage'.questions_used = usage.questions_used
        /\ usage'.pending_question \in {usage.pending_question, NoText}

\* C21: whatever questions_used is, 3 or more included, a chat request of an
\* admin or of a Pro user is never answered with the paywall, never stores
\* a pending question and never increments questions_used.
C21_AdminAndProBypass == []NeverPaywalled /\ [][UsageKept]_vars

\* An admin without a subscription, with questions_used = 3, has got an
\* answer, and questions_used is still 3.
C21_Witness ==
    /\ account.role = "admin"
    /\ account.subscription = NoSubscription
    /\ usage.questions_used = FreeLimit
    /\ \E i \in 1..MaxChats :
          /\ chats[i].response # None
          /\ chats[i].response.type = "answer"
          /\ chats[i].entBefore.questionsUsed = FreeLimit

\* C28: a request that ends with an error response (an invalid body, tool
\* calls that are invalid or too many, a failed dispatch, or any later
\* failure) has not consumed a free question: it has not counted up
\* questions_used.
C28_ErrorKeepsQuestions ==
    \A i \in 1..MaxChats :
        (chats[i].response # None /\ chats[i].response.type = "error") =>
            "incrementQuestionsUsed" \notin chats[i].wrote

\* The headers that are missing, malformed or do not carry the HMAC of the
\* payload they came with.
UnverifiedHeaders ==
    {MissingHeader}
        \cup UNION {MalformedHeaders(PayloadOf(event)) : event \in StripeEvents \cup ForgedEvents}
        \cup UNION {MismatchedHeaders(PayloadOf(event)) : event \in StripeEvents \cup ForgedEvents}

\* A request that came with such a header is answered 400, its payload was
\* not read and it has written nothing.
UnverifiedRefused ==
    \A d \in 1..MaxDeliveries :
        (deliveries[d].pc # "idle" /\ deliveries[d].signatureHeader \in UnverifiedHeaders) =>
            /\ deliveries[d].pc = "done"
            /\ deliveries[d].response = Refused(400)
            /\ deliveries[d].event = NoDelivery.event
            /\ deliveries[d].writes = 0

\* The step that answers a request with such a header changes no table.
UnverifiedKeepsTables ==
    \A d \in 1..MaxDeliveries :
        (deliveries'[d] # deliveries[d] /\ deliveries'[d].signatureHeader \in UnverifiedHeaders) =>
            UNCHANGED <<stripe_events, stripe_customers, subscriptions>>

\* C30: a webhook request whose Stripe-Signature header is missing,
\* malformed or does not match the HMAC of the payload is rejected with
\* status 400 and leaves stripe_events, stripe_customers and subscriptions
\* unchanged.
C30_BadSignatureRejected == []UnverifiedRefused /\ [][UnverifiedKeepsTables]_vars

\* A forged subscription event signed with another secret was answered 400
\* while a delivery of evt_1 had already stored the customer, and user_1
\* has no subscription.
C30_Witness ==
    \E d, e \in 1..MaxDeliveries :
        /\ deliveries[d].signatureHeader \in MismatchedHeaders("evt_5")
        /\ deliveries[d].response = Refused(400)
        /\ deliveries[e].event.id = "evt_1"
        /\ stripe_customers["cus_1"] = "user_1"
        /\ subscriptions["user_1"] = Absent

\* The subscription events that carry all a handler needs: the customer,
\* the status and the user.
ApplicableEvents ==
    {event \in StripeEvents :
        /\ event.type \in SubscriptionTypes
        /\ event.customer # Absent /\ event.status # Absent /\ event.userId # Absent}

\* C29: no subscription event is lost: when a validly signed
\* customer.subscription.* event has been answered with success, so that
\* Stripe stops redelivering it, a delivery of the event has written it to
\* subscriptions or is still in its handler, also when an earlier delivery
\* of the event failed after its id was recorded in stripe_events.
C29_NoEventLost ==
    \A event \in ApplicableEvents :
        (\E d \in 1..MaxDeliveries :
            /\ deliveries[d].event = event
            /\ deliveries[d].response # None
            /\ deliveries[d].response.status = 200) =>
        (\E e \in 1..MaxDeliveries :
            /\ deliveries[e].event = event
            /\ \/ deliveries[e].writes = 1
               \/ deliveries[e].pc = "upsertSubscription")

(***************************************************************************)
(* The order and the choice of the items of an intent (SpecRequest)        *)
(***************************************************************************)
\* The rows run i fetched for a period with its row limit: "rowsCurrent" or
\* "rowsPrevious".
FetchedRows(i, fetch) ==
    LET rowLimit == RowLimitOf(request.message, request.calls[i], perCallCap(CallCount))
    IN  queryRows(Upstream(request.site, Payload(ArgsOf(i), rowLimit, fetch)))

\* The place of a key in ascending order.
KeyPlace(key) == CHOOSE p \in DOMAIN Collation : Collation[p] = key

\* Row a comes before row b: by deltaClicks, descending for the winners and
\* ascending for the losers, and by the key, ascending, when they are equal.
BeforeByClicks(intent, a, b) ==
    LET winners == intent \in {"TOP_WINNERS_QUERIES", "TOP_WINNERS_PAGES"}
    IN  \/ (winners /\ a.deltaClicks > b.deltaClicks)
        \/ (~winners /\ a.deltaClicks < b.deltaClicks)
        \/ (a.deltaClicks = b.deltaClicks /\ KeyPlace(a.key) < KeyPlace(b.key))

\* C23: the items of TOP_WINNERS_QUERIES and TOP_WINNERS_PAGES are ordered
\* by deltaClicks descending, those of TOP_LOSERS_QUERIES and
\* TOP_LOSERS_PAGES by deltaClicks ascending, ties by the key ascending, and
\* they are exactly the first rowLimit rows of that order over all merged
\* rows.
C23_TopItemsInOrder ==
    \A i \in DOMAIN runs :
        (/\ runs[i].settled.state = "resolved"
         /\ runs[i].settled.value.intent \in
               {"TOP_WINNERS_QUERIES", "TOP_WINNERS_PAGES",
                "TOP_LOSERS_QUERIES", "TOP_LOSERS_PAGES"}) =>
            LET r == runs[i].settled.value
                all == Range(mergeDeltas(FetchedRows(i, "rowsCurrent"),
                                         FetchedRows(i, "rowsPrevious"), KeyField(r.intent)))
                list == [j \in DOMAIN r.items.list |-> r.items.list[j].metrics]
            IN  /\ Len(list) = Min(r.rowLimit, Cardinality(all))
                /\ Range(list) \subseteq all
                /\ \A j, k \in DOMAIN list : j < k => BeforeByClicks(r.intent, list[j], list[k])
                /\ \A m \in all \ Range(list) :
                      \A j \in DOMAIN list : BeforeByClicks(r.intent, list[j], m)

\* The losing queries of the shifting site: acme boots lost 20 clicks and
\* comes first, boots and shoes lost 5 each and come in the order of their
\* names, although shoes was fetched first.
C23_Witness ==
    \E i \in DOMAIN runs :
        /\ runs[i].settled.state = "resolved"
        /\ runs[i].settled.value.intent = "TOP_LOSERS_QUERIES"
        /\ LET list == runs[i].settled.value.items.list
           IN  /\ [j \in DOMAIN list |-> list[j].query] = <<"acme boots", "boots", "shoes">>
               /\ [j \in DOMAIN list |-> list[j].deltaClicks] = <<-20, -5, -5>>

\* Row a comes before row b: by deltaClicks ascending, then by deltaPosition
\* descending, then by the query ascending.
BeforeByLoss(a, b) ==
    \/ a.deltaClicks < b.deltaClicks
    \/ (a.deltaClicks = b.deltaClicks /\ a.deltaPosition > b.deltaPosition)
    \/ (/\ a.deltaClicks = b.deltaClicks /\ a.deltaPosition = b.deltaPosition
        /\ KeyPlace(a.key) < KeyPlace(b.key))

\* The query has a row in the current period whose position is lower than
\* that of its row in the previous period.
RankingImproved(i, query) ==
    LET curr == FetchedRows(i, "rowsCurrent")
        prv == FetchedRows(i, "rowsPrevious")
    IN  /\ MapHas(curr, query) /\ MapHas(prv, query)
        /\ MapGet(curr, query).position < MapGet(prv, query).position

\* C24: every item of POSITION_UP_CLICKS_DOWN_QUERIES has deltaClicks < 0
\* and deltaPosition > 0, and its ranking improved: the query has a row in
\* the current period whose position is lower than its position in the
\* previous period; the items are ordered by deltaClicks ascending, then
\* deltaPosition descending, then query ascending.
C24_PositionUpClicksDown ==
    \A i \in DOMAIN runs :
        (/\ runs[i].settled.state = "resolved"
         /\ runs[i].settled.value.intent = "POSITION_UP_CLICKS_DOWN_QUERIES") =>
            LET list == runs[i].settled.value.items.list
            IN  /\ \A j \in DOMAIN list :
                      /\ list[j].metrics.deltaClicks < 0
                      /\ list[j].metrics.deltaPosition > 0
                      /\ RankingImproved(i, list[j].query)
                /\ \A j, k \in DOMAIN list :
                      j < k => BeforeByLoss(list[j].metrics, list[k].metrics)

\* The rows of a query among the (query, page) rows of a period: those with
\* that query and a page that is not empty.
PairsOf(rows, query) ==
    SelectSeq(rows, LAMBDA r : Len(r.keys) >= 2 /\ r.keys[1] = query /\ r.keys[2] # "")

\* The clicks of a query's pages together, and those of its page with the
\* most clicks.
ClicksOf(rows, query) ==
    Total([j \in DOMAIN PairsOf(rows, query) |-> PairsOf(rows, query)[j].clicks])
TopPageClicksOf(rows, query) ==
    LET clicks == {PairsOf(rows, query)[j].clicks : j \in DOMAIN PairsOf(rows, query)}
    IN  CHOOSE c \in clicks : \A other \in clicks : c >= other

\* The query is served by two pages or more in the current period, has
\* clicks, and its top page has less than 80% of them.
Cannibalized(rows, query) ==
    /\ query # ""
    /\ Len(PairsOf(rows, query)) >= 2
    /\ ClicksOf(rows, query) > 0
    /\ 10 * TopPageClicksOf(rows, query) < 8 * ClicksOf(rows, query)

\* Query a comes before query b: by the clicks of the current period
\* descending, then by the concentration ascending, then by the query
\* ascending.
BeforeByCannibalization(rows, a, b) ==
    LET concentrationDiff == TopPageClicksOf(rows, a) * ClicksOf(rows, b)
                                - TopPageClicksOf(rows, b) * ClicksOf(rows, a)
    IN  \/ ClicksOf(rows, a) > ClicksOf(rows, b)
        \/ (ClicksOf(rows, a) = ClicksOf(rows, b) /\ concentrationDiff < 0)
        \/ (/\ ClicksOf(rows, a) = ClicksOf(rows, b) /\ concentrationDiff = 0
            /\ KeyPlace(a) < KeyPlace(b))

\* C25: CANNIBALIZATION_QUERIES aggregates the (query, page) rows with both
\* keys non-empty per query; a query is returned if and only if, within
\* rowLimit, its current pageCount is 2 or more, its totalClicks more than
\* 0 and its concentration, the clicks of its page with the most clicks
\* over totalClicks, less than 0.8; the items are ordered by the current
\* totalClicks descending, then concentration ascending, then query
\* ascending.
C25_CannibalizationItems ==
    \A i \in DOMAIN runs :
        (/\ runs[i].settled.state = "resolved"
         /\ runs[i].settled.value.intent = "CANNIBALIZATION_QUERIES") =>
            LET r == runs[i].settled.value
                curr == FetchedRows(i, "rowsCurrent")
                prv == FetchedRows(i, "rowsPrevious")
                queries == {FirstKey(curr[j]) : j \in DOMAIN curr}
                              \cup {FirstKey(prv[j]) : j \in DOMAIN prv}
                cannibalized == {q \in queries : Cannibalized(curr, q)}
                list == [j \in DOMAIN r.items.list |-> r.items.list[j].query]
            IN  /\ Len(list) = Min(r.rowLimit, Cardinality(cannibalized))
                /\ Range(list) \subseteq cannibalized
                /\ \A j \in DOMAIN list :
                      /\ r.items.list[j].current.pageCount = Len(PairsOf(curr, list[j]))
                      /\ r.items.list[j].current.totalClicks = ClicksOf(curr, list[j])
                      /\ r.items.list[j].current.concentration.n = TopPageClicksOf(curr, list[j])
                      /\ r.items.list[j].current.concentration.d = ClicksOf(curr, list[j])
                /\ \A j, k \in DOMAIN list :
                      j < k => BeforeByCannibalization(curr, list[j], list[k])
                /\ \A q \in cannibalized \ Range(list) :
                      \A j \in DOMAIN list : BeforeByCannibalization(curr, list[j], q)

\* The shifting site: shoes has the most clicks, boots the lowest
\* concentration of the rest, acme boots and sandals are equal and come in
\* the order of their names; socks, with exactly 80% of its clicks on one
\* page, is not returned.
C25_Witness ==
    \E i \in DOMAIN runs :
        /\ runs[i].settled.state = "resolved"
        /\ runs[i].settled.value.intent = "CANNIBALIZATION_QUERIES"
        /\ LET list == runs[i].settled.value.items.list
           IN  [j \in DOMAIN list |-> list[j].query] =
                  <<"shoes", "boots", "acme boots", "sandals">>
        /\ Len(PairsOf(FetchedRows(i, "rowsCurrent"), "socks")) = 2

(***************************************************************************)
(* The confidence and the recommended actions of an answer (SpecAnswer)    *)
(***************************************************************************)
\* C26: when buildV2Answer is given no data at all (zero IntentResults, no
\* GSC data was pulled), the confidence level of the Answer is Low.
C26_NoDataIsLow ==
    (v2 # None /\ Len(v2Input.results) = 0) => v2.confidence.level = "Low"

\* The input is one the chat route builds (route.ts 869-881): the intent
\* of the only result, and no intent with no result or with several.
RouteBuilt ==
    v2Input.intent =
        IF Len(v2Input.results) = 1 THEN v2Input.results[1].intent ELSE Undef

DiagnosticSteps ==
    <<"Confirm you selected the correct Search Console property.",
      "Ask a more specific question.",
      "Verify the property is verified and permissions suffice.">>

BaseSteps ==
    <<"Validate the main landing page and snippet alignment.",
      "Inspect SERP changes and competitors.",
      "Improve CTR on high-impression items.",
      "Check technical and coverage basics.">>

\* The action an intent puts before the base actions.
IntentSteps(intent) ==
    IF intent = "CANNIBALIZATION_QUERIES"
    THEN <<"Consolidate overlapping pages for the top cannibalized query.">>
    ELSE IF intent = "DRILLDOWN_PAGE_TO_QUERIES"
    THEN <<"Prioritize on-page sections and internal links on the page.">>
    ELSE <<>>

MaxLogins == 3

\* What the callback is called with: the state and the code parameters, ""
\* when the parameter is missing.
CallbackParams(state, code) == [state |-> state, code |-> code]

\* A visit that has not begun.
NoLogin ==
    [pc |-> "idle", started |-> FALSE, given |-> Absent,
     params |-> CallbackParams(Absent, Absent), response |-> None]

\* The Google account behind a code: the code of the user's own consent and
\* the code of a third party's account.
SubOf(code) == IF code = "code_user" THEN "sub_user" ELSE "sub_other"

\* What Google sends back for the code: tokens with a refresh token and an
\* id token that verifies, or nothing useful.
TokenOutcomes == {"tokens", "exchange failed"}

InitOAuth ==
    /\ session = [userId |-> Absent, oauthState |-> Absent]
    /\ users = {}
    /\ usage_rows = {}
    /\ gsc_tokens = {}
    /\ logins = [l \in 1..MaxLogins |-> NoLogin]
    /\ current = None /\ previousRange = None
    /\ currRows = None /\ prevRows = None /\ merged = None
    /\ answer = None /\ markdown = None
    /\ v2Input = None /\ v2 = None
    /\ RequestParked
    /\ NormalizeParked
    /\ ChatParked
    /\ WebhookParked

OAuthUnchanged ==
    UNCHANGED <<rangeVars, mergeVars, renderVars, answerVars, requestVars, normalizeVars,
                chatVars, webhookVars>>

\* GET /api/auth/google (route.ts 11-27): a session without a user id gets a
\* random one; the browser is redirected to the URL of generateAuthUrl, which
\* is given a scope, access_type and prompt, and no state. The visit keeps
\* the state the URL carries: none.
StartLogin(l) ==
    /\ logins[l].pc = "idle"
    /\ \A j \in 1..(l - 1) : logins[j].pc # "idle"
    /\ session' = [session EXCEPT !.userId = IF @ = Absent THEN "random uuid" ELSE @]
    /\ logins' = [logins EXCEPT ![l].pc = "google", ![l].started = TRUE,
                                ![l].given = Absent]
    /\ UNCHANGED <<users, usage_rows, gsc_tokens>>
    /\ OAuthUnchanged

\* Google, after the user's consent, redirects the browser to the callback
\* with a code and with the state parameter of the URL it was called with.
GoogleRedirects(l) ==
    /\ logins[l].pc = "google"
    /\ logins' = [logins EXCEPT ![l].pc = "callback",
                                ![l].params = CallbackParams(logins[l].given, "code_user")]
    /\ UNCHANGED <<session, users, usage_rows, gsc_tokens>>
    /\ OAuthUnchanged

\* A third party sends the browser to the callback with a code of its own
\* account and a state of its choice.
ForgedCallback(l, state) ==
    /\ logins[l].pc = "idle"
    /\ \A j \in 1..(l - 1) : logins[j].pc # "idle"
    /\ logins' = [logins EXCEPT ![l].pc = "callback",
                                ![l].params = CallbackParams(state, "code_other")]
    /\ UNCHANGED <<session, users, usage_rows, gsc_tokens>>
    /\ OAuthUnchanged

\* part_006 78-82: !returnedState || !expectedState || returnedState !==
\* expectedState, both "" when missing.
InvalidOAuthState(returnedState, expectedState) ==
    returnedState = Absent \/ expectedState = Absent \/ returnedState # expectedState

\* GET of the OAuth callback (part_006 75-161): the state check, the code,
\* the token exchange and the identity, and then the login: the user is
\* upserted, gets a usage row, the session is given the user's id and loses
\* its oauthState, and the tokens are stored.
Callback(l, outcome) ==
    /\ logins[l].pc = "callback"
    /\ LET params == logins[l].params
           userId == SubOf(params.code)
       IN  IF InvalidOAuthState(params.state, session.oauthState)
           THEN /\ logins' = [logins EXCEPT ![l].pc = "done",
                                           ![l].response = ErrorReply(400, "Invalid OAuth state.")]
                /\ UNCHANGED <<session, users, usage_rows, gsc_tokens>>
           ELSE IF params.code = Absent \/ outcome # "tokens"
           THEN /\ logins' = [logins EXCEPT ![l].pc = "done",
                                           ![l].response = ErrorReply(400, "No tokens.")]
                /\ UNCHANGED <<session, users, usage_rows, gsc_tokens>>
           ELSE /\ users' = users \cup {userId}
                /\ usage_rows' = usage_rows \cup {userId}
                /\ session' = [userId |-> userId, oauthState |-> Absent]
                /\ gsc_tokens' = gsc_tokens \cup {userId}
                /\ logins' = [logins EXCEPT ![l].pc = "done",
                                           ![l].response = [type |-> "redirect", to |-> "/app"]]
    /\ OAuthUnchanged

NextOAuth ==
    \/ \E l \in 1..MaxLogins : StartLogin(l)
    \/ \E l \in 1..MaxLogins : GoogleRedirects(l)
    \/ \E l \in 1..MaxLogins : \E state \in {Absent, "state_x"} : ForgedCallback(l, state)
    \/ \E l \in 1..MaxLogins : \E outcome \in TokenOutcomes : Callback(l, outcome)

SpecOAuth == InitOAuth /\ [][NextOAuth]_vars

\* While a visit that began at the start route is at Google, the session
\* holds an oauthState, and it is the state the visit was given.
StartStoresState ==
    \A l \in 1..MaxLogins :
        logins[l].pc = "google" =>
            session.oauthState # Absent /\ logins[l].given = session.oauthState

\* Logged in are only visits to the callback whose state is not empty and
\* is the oauthState the start route stored: a user row, a usage row, stored
\* tokens and a session user come from such a visit only.
LoginOnlyWithState ==
    LET loggedIn == {l \in 1..MaxLogins :
                        logins[l].response = [type |-> "redirect", to |-> "/app"]}
    IN  /\ \A l \in loggedIn :
              /\ logins[l].params.state # Absent
              /\ \E k \in 1..MaxLogins :
                    logins[k].started /\ logins[k].given = logins[l].params.state
        /\ (users # {} \/ usage_rows # {} \/ gsc_tokens # {} \/ session.userId \in users)
              => loggedIn # {}

\* A visit that began at the start route and came back with the state it
\* was given has passed the state check.
StartedLoginAccepted ==
    \A l \in 1..MaxLogins :
        (/\ logins[l].started /\ logins[l].pc = "done"
         /\ logins[l].params.state = logins[l].given)
            => logins[l].response # ErrorReply(400, "Invalid OAuth state.")

\* C22: the OAuth start route stores a fresh oauthState in the session
\* before it redirects to Google; the callback logs the user in (upserts
\* the user, sets session.userId, stores the tokens) only when the returned
\* state is not empty and equals the session's oauthState; and a login
\* that began at the start route and comes back with the state it was given
\* is accepted.
C22_OAuthLogin == StartStoresState /\ LoginOnlyWithState /\ StartedLoginAccepted
====
